---- MODULE Spec2Model ----
(***************************************************************************)
(* A model of convert_training_data.py: the batch compiler that turns the  *)
(* Gerbil knowledge corpus into two parallel streams of training entries   *)
(* (ChatML and Alpaca), deduplicates each by its "source" identifier and   *)
(* writes them out.                                                        *)
(*                                                                         *)
(* Python strings are TLA+ strings (TLC evaluates Len, \o, SubSeq, Head    *)
(* and Tail on them); Python lists are sequences; Python dicts with fixed  *)
(* keys are records.  A text file is the sequence of its lines, so that    *)
(* f.read() is the lines joined by "\n" and content.split("\n") is the     *)
(* sequence itself.                                                        *)
(***************************************************************************)
EXTENDS Integers, Sequences, FiniteSets, TLC

VARIABLES
    entries,      \* deduplicate(): the list handed to the first call
    deduped,      \* deduplicate(): what the first call returned
    twice,        \* deduplicate(): what a second call on `deduped` returned
    calls,        \* deduplicate(): how many calls have returned (0, 1, 2)
    corpus,       \* the three required JSON files under MCP_DIR
    tree,         \* the optional files and directories main() scans
    pc,           \* main(): the statement it is at
    all_chatml,   \* main(): the ChatML stream
    all_alpaca,   \* main(): the Alpaca stream
    pre_chatml,   \* history: the ChatML stream as handed to deduplicate()
    pre_alpaca,   \* history: the Alpaca stream as handed to deduplicate()
    output_dir,   \* whether OUTPUT_DIR exists
    written,      \* the output files opened for writing so far, in order
    outfiles,     \* the entries held by each output file written
    summary,      \* main(): the (category, count) lines printed at the end
    failure,      \* the exception main() died of, "" if none
    job,          \* one adapter call: the adapter and its single input
    result,       \* one adapter call: what it returned
    ran           \* one adapter call: whether it has returned

dvars == <<entries, deduped, twice, calls>>

mvars == <<corpus, tree, pc, all_chatml, all_alpaca, pre_chatml, pre_alpaca,
           output_dir, written, outfiles, summary, failure>>

avars == <<job, result, ran>>

vars == <<dvars, mvars, avars>>

(***************************************************************************)
(* Strings                                                                 *)
(***************************************************************************)

\* s[i:] of a string, 1-based: the characters from position i on
Drop(s, i) == SubSeq(s, i, Len(s))

\* s[i-1:j] of Python, 1-based and inclusive here, cut to the string
Slice(s, i, j) ==
    SubSeq(s, IF i < 1 THEN 1 ELSE i, IF j > Len(s) THEN Len(s) ELSE j)

\* s.startswith(p)
StartsWith(s, p) == Len(s) >= Len(p) /\ SubSeq(s, 1, Len(p)) = p

\* the characters str.strip() removes
Whitespace == {" ", "\t", "\n", "\r", "\f"}

RECURSIVE LStrip(_)
\* s.lstrip()
LStrip(s) ==
    IF s /= "" /\ Head(s) \in Whitespace THEN LStrip(Tail(s)) ELSE s

RECURSIVE RStrip(_)
\* s.rstrip()
RStrip(s) ==
    IF s /= "" /\ SubSeq(s, Len(s), Len(s)) \in Whitespace
    THEN RStrip(SubSeq(s, 1, Len(s) - 1))
    ELSE s

\* s.strip()
Strip(s) == LStrip(RStrip(s))

RECURSIVE LStripChar(_, _)
\* s.lstrip(ch) for a one-character ch
LStripChar(s, ch) ==
    IF s /= "" /\ Head(s) = ch THEN LStripChar(Tail(s), ch) ELSE s

RECURSIVE RStripChar(_, _)
\* s.rstrip(ch) for a one-character ch
RStripChar(s, ch) ==
    IF s /= "" /\ SubSeq(s, Len(s), Len(s)) = ch
    THEN RStripChar(SubSeq(s, 1, Len(s) - 1), ch)
    ELSE s

\* s.find(sub) + 1: the position of the first occurrence of sub in s, 0 if none
IndexOf(s, sub) ==
    LET I == {i \in 1..(Len(s) - Len(sub) + 1) : SubSeq(s, i, i + Len(sub) - 1) = sub}
    IN  IF I = {} THEN 0 ELSE CHOOSE i \in I : \A j \in I : i <= j

\* sub in s
Contains(s, sub) == IndexOf(s, sub) /= 0

RECURSIVE Replace(_, _, _)
\* s.replace(old, new): left to right, non-overlapping
Replace(s, old, new) ==
    LET i == IndexOf(s, old) IN
    IF i = 0 THEN s
    ELSE SubSeq(s, 1, i - 1) \o new \o Replace(Drop(s, i + Len(old)), old, new)

RECURSIVE Join(_, _)
\* sep.join(parts)
Join(parts, sep) ==
    IF parts = <<>> THEN ""
    ELSE IF Len(parts) = 1 THEN parts[1]
         ELSE LET h == Len(parts) \div 2 IN
              Join(SubSeq(parts, 1, h), sep) \o sep
                  \o Join(SubSeq(parts, h + 1, Len(parts)), sep)

\* the ASCII letters str.lower() changes, and what it changes them to
LowerOf ==
    [c \in {"A", "B", "C", "D", "E", "F", "G", "H", "I", "J", "K", "L", "M",
            "N", "O", "P", "Q", "R", "S", "T", "U", "V", "W", "X", "Y", "Z"} |->
        CASE c = "A" -> "a" [] c = "B" -> "b" [] c = "C" -> "c" [] c = "D" -> "d"
          [] c = "E" -> "e" [] c = "F" -> "f" [] c = "G" -> "g" [] c = "H" -> "h"
          [] c = "I" -> "i" [] c = "J" -> "j" [] c = "K" -> "k" [] c = "L" -> "l"
          [] c = "M" -> "m" [] c = "N" -> "n" [] c = "O" -> "o" [] c = "P" -> "p"
          [] c = "Q" -> "q" [] c = "R" -> "r" [] c = "S" -> "s" [] c = "T" -> "t"
          [] c = "U" -> "u" [] c = "V" -> "v" [] c = "W" -> "w" [] c = "X" -> "x"
          [] c = "Y" -> "y" [] c = "Z" -> "z"]

RECURSIVE Lower(_)
\* s.lower()
Lower(s) ==
    IF s = "" THEN ""
    ELSE IF Len(s) = 1
         THEN (IF s \in DOMAIN LowerOf THEN LowerOf[s] ELSE s)
         ELSE LET h == Len(s) \div 2 IN
              Lower(SubSeq(s, 1, h)) \o Lower(Drop(s, h + 1))

RECURSIVE Upper(_)
\* s.upper()
Upper(s) ==
    IF s = "" THEN ""
    ELSE IF Len(s) = 1
         THEN (IF \E c \in DOMAIN LowerOf : LowerOf[c] = s
               THEN CHOOSE c \in DOMAIN LowerOf : LowerOf[c] = s
               ELSE s)
         ELSE LET h == Len(s) \div 2 IN
              Upper(SubSeq(s, 1, h)) \o Upper(Drop(s, h + 1))

RECURSIVE NewlineRun(_)
\* how many "\n" the string s starts with
NewlineRun(s) ==
    IF s /= "" /\ Head(s) = "\n" THEN 1 + NewlineRun(Tail(s)) ELSE 0

RECURSIVE CollapseBlankLines(_)
\* re.sub(r'\n{3,}', '\n\n', s): every maximal run of three or more newlines
\* becomes two
CollapseBlankLines(s) ==
    LET i == IndexOf(s, "\n\n\n") IN
    IF i = 0 THEN s
    ELSE SubSeq(s, 1, i - 1) \o "\n\n"
         \o CollapseBlankLines(Drop(s, i + NewlineRun(Drop(s, i))))

\* the backquote character, written ~ here: a TLA+ string cannot hold a
\* backquote, and ~ is in none of the character classes of the patterns below
Backquote == "~"

\* s[i-1] of Python, 1-based here; "" outside the string
CharAt(s, i) == IF i >= 1 /\ i <= Len(s) THEN SubSeq(s, i, i) ELSE ""

RECURSIVE RunEnd(_, _, _)
\* the first position from i on whose character is not in S
RunEnd(s, i, S) ==
    IF i <= Len(s) /\ SubSeq(s, i, i) \in S THEN RunEnd(s, i + 1, S) ELSE i

\* normalize_code(code)
normalize_code(code) ==
    LET c1 == Replace(code, "\\n", "\n")
        c2 == Replace(c1, "\\\"", "\"")
        c3 == Replace(c2, "\\\\", "\\")
    IN  Strip(CollapseBlankLines(c3))

(***************************************************************************)
(* Entries                                                                 *)
(***************************************************************************)

SYSTEM_PROMPT ==
    "You are an expert in Gerbil Scheme, a dialect of Scheme built on Gambit. "
    \o "You provide accurate, idiomatic Gerbil code with correct imports, function "
    \o "names, and arities. You know the standard library (:std/*), the actor system, "
    \o "the FFI interface, the macro system (defrules, syntax-case), pattern matching, "
    \o "the module system, and common gotchas. When writing code, always include "
    \o "required import statements."

\* a make_chatml() that leaves the identifier empty
make_chatml_anonymous(conversations, source_id) ==
    [conversations |-> conversations, source |-> ""]

\* make_chatml(conversations, source_id)
make_chatml(conversations, source_id) ==
    [conversations |-> conversations, source |-> source_id]

\* make_alpaca() filling instruction and output the wrong way round
make_alpaca_swapped(instruction, output, inp, source_id) ==
    [instruction |-> output, input |-> inp, output |-> instruction,
     source |-> source_id]

\* make_alpaca(instruction, output, inp = "", source_id = "")
make_alpaca(instruction, output, inp, source_id) ==
    [instruction |-> instruction, input |-> inp, output |-> output,
     source |-> source_id]

\* turns that lack the system persona
TurnsWithoutPersona(question, answer) ==
    << [role |-> "user", content |-> question],
       [role |-> "assistant", content |-> answer] >>

\* the three turns every adapter hands to make_chatml
Turns(question, answer) ==
    << [role |-> "system", content |-> SYSTEM_PROMPT],
       [role |-> "user", content |-> question],
       [role |-> "assistant", content |-> answer] >>

(***************************************************************************)
(* Deduplication                                                           *)
(***************************************************************************)

\* entry.get(key, default)
Get(entry, key, default) ==
    IF key \in DOMAIN entry THEN entry[key] ELSE default

RECURSIVE JsonEscape(_)
\* the body of a JSON string literal as json.dumps writes it
JsonEscape(s) ==
    IF s = "" THEN ""
    ELSE IF Len(s) = 1
         THEN CASE s = "\"" -> "\\\""
                [] s = "\\" -> "\\\\"
                [] s = "\n" -> "\\n"
                [] s = "\t" -> "\\t"
                [] s = "\r" -> "\\r"
                [] s = "\f" -> "\\f"
                [] OTHER -> s
         ELSE LET h == Len(s) \div 2 IN
              JsonEscape(SubSeq(s, 1, h)) \o JsonEscape(Drop(s, h + 1))

JsonString(s) == "\"" \o JsonEscape(s) \o "\""

\* one turn of a conversation, keys sorted
JsonTurn(t) ==
    "{\"content\": " \o JsonString(t.content) \o ", \"role\": "
        \o JsonString(t.role) \o "}"

\* the keys an entry can have, in sorted order
SortedKeys == <<"conversations", "input", "instruction", "output", "source">>

\* json.dumps(entry, sort_keys=True)
JsonDumps(entry) ==
    LET keys == SelectSeq(SortedKeys, LAMBDA k : k \in DOMAIN entry)
        Value(k) ==
            IF k = "conversations"
            THEN "[" \o Join([i \in 1..Len(entry[k]) |-> JsonTurn(entry[k][i])], ", ")
                     \o "]"
            ELSE JsonString(entry[k])
    IN  "{" \o Join([i \in 1..Len(keys) |->
                        JsonString(keys[i]) \o ": " \o Value(keys[i])], ", ")
            \o "}"

\* hashlib.md5(data).hexdigest(): a digest is a string, determined by the data;
\* distinct data of the sizes modelled here have distinct digests
Md5HexDigest(data) == "md5<" \o data \o ">"

\* the content hash deduplicate() computes for an entry without a source id
ContentHash(entry) == Md5HexDigest(JsonDumps(entry))

\* A bug deduplicate() could have: the key is recorded but a later entry with
\* the same key is appended all the same.
DedupLoopBodyKeepsAll(st, entry, key_field) ==
    [seen |-> st.seen \cup {Get(entry, key_field, "")},
     deduped |-> Append(st.deduped, entry)]

\* A bug deduplicate() could have: an entry without an identifier is always
\* kept, its content hash neither looked up nor recorded.
DedupLoopBodyIdlessKept(st, entry, key_field) ==
    LET sid == Get(entry, key_field, "") IN
    IF sid /= "" /\ sid \in st.seen THEN st
    ELSE [seen |-> st.seen \cup (IF sid = "" THEN {} ELSE {sid}),
          deduped |-> Append(st.deduped, entry)]

\* A bug deduplicate() could have: a kept entry is put in front of the result
\* instead of at its end.
DedupLoopBodyPrepends(st, entry, key_field) ==
    LET sid == Get(entry, key_field, "")
        key == IF sid /= "" THEN sid ELSE ContentHash(entry)
    IN  IF key \in st.seen THEN st
        ELSE [seen |-> st.seen \cup {key}, deduped |-> <<entry>> \o st.deduped]

\* one iteration of deduplicate()'s loop over st = (seen, deduped)
DedupLoopBody(st, entry, key_field) ==
    LET sid == Get(entry, key_field, "") IN
    IF sid /= "" /\ sid \notin st.seen
    THEN [seen |-> st.seen \cup {sid}, deduped |-> Append(st.deduped, entry)]
    ELSE IF sid = ""
         THEN LET content_hash == ContentHash(entry) IN
              IF content_hash \notin st.seen
              THEN [seen |-> st.seen \cup {content_hash},
                    deduped |-> Append(st.deduped, entry)]
              ELSE st
         ELSE st

RECURSIVE DedupLoop(_, _, _)
DedupLoop(st, es, key_field) ==
    IF es = <<>> THEN st
    ELSE DedupLoop(DedupLoopBody(st, Head(es), key_field), Tail(es), key_field)

\* deduplicate(entries, key_field)
deduplicate(es, key_field) ==
    DedupLoop([seen |-> {}, deduped |-> <<>>], es, key_field).deduped

(***************************************************************************)
(* Paths and files                                                         *)
(***************************************************************************)

\* os.path.expanduser("~")
HomeDir == "/home/u"

MCP_DIR == HomeDir \o "/mine/gerbil-mcp"
GERBIL_DIR == HomeDir \o "/mine/gerbil"
GAMBIT_DIR == HomeDir \o "/mine/gambit"
OUTPUT_DIR == HomeDir \o "/mine/gerbil-lora"

RECURSIVE Split(_, _)
\* s.split(sep)
Split(s, sep) ==
    LET i == IndexOf(s, sep) IN
    IF i = 0 THEN <<s>>
    ELSE <<SubSeq(s, 1, i - 1)>> \o Split(Drop(s, i + Len(sep)), sep)

\* os.path.basename(path)
Basename(path) == LET parts == Split(path, "/") IN parts[Len(parts)]

\* how many leading components two component lists share
CommonPrefixLen(xs, ys) ==
    LET n == IF Len(xs) < Len(ys) THEN Len(xs) ELSE Len(ys)
        D == {i \in 1..n : xs[i] /= ys[i]}
    IN  IF D = {} THEN n ELSE (CHOOSE i \in D : \A j \in D : i <= j) - 1

\* os.path.relpath(path, start) for absolute, normalised paths
RelPath(path, start) ==
    LET ps == SelectSeq(Split(path, "/"), LAMBDA x : x /= "")
        ss == SelectSeq(Split(start, "/"), LAMBDA x : x /= "")
        i == CommonPrefixLen(ss, ps)
        rel == [k \in 1..(Len(ss) - i) |-> ".."] \o SubSeq(ps, i + 1, Len(ps))
    IN  IF rel = <<>> THEN "." ELSE Join(rel, "/")

\* the errors open()/read() can end with
ReadErrors ==
    {"FileNotFoundError", "PermissionError", "IsADirectoryError", "UnicodeDecodeError"}

\* f.read() of a file kept as its lines
ContentOf(file) == Join(file.lines, "\n")

\* what an adapter returns: its two lists, or the exception it raised
Returned(chatml, alpaca) == [exc |-> "", chatml |-> chatml, alpaca |-> alpaca]
Raised(exc) == [exc |-> exc, chatml |-> <<>>, alpaca |-> <<>>]

\* the pair of entries appended for one (question, answer, identifier)
EmitPair(r, question, answer, source_id) ==
    [exc |-> r.exc,
     chatml |-> Append(r.chatml, make_chatml(Turns(question, answer), source_id)),
     alpaca |-> Append(r.alpaca, make_alpaca(question, answer, "", source_id))]

\* chatml_entries.extend(c); alpaca_entries.extend(a)
Extend(r, more) ==
    [exc |-> r.exc, chatml |-> r.chatml \o more.chatml,
     alpaca |-> r.alpaca \o more.alpaca]

(***************************************************************************)
(* Sources 1-3: recipes, security rules, error fixes                       *)
(***************************************************************************)

\* the ``` fence of a code block
Fence == Backquote \o Backquote \o Backquote

\* "```scheme\n<code>\n```"
SchemeBlock(code) == Fence \o "scheme\n" \o code \o "\n" \o Fence

\* xs[:n] of a list
Take(xs, n) == IF Len(xs) <= n THEN xs ELSE SubSeq(xs, 1, n)

\* x in xs, for a list
InList(x, xs) == \E i \in 1..Len(xs) : xs[i] = x

\* a pattern that matches any code, and all of it
WrongMatchAnything(code) == [ok |-> TRUE, group0 |-> code]

\* re.search(r';;\s*WRONG[:\s]*(.*?)(?:\n;;|\n\n|\Z)', code, re.S): whether it
\* matches, and group(0)
WrongMatch(code) ==
    LET S == {i \in 1..Len(code) :
                 /\ Slice(code, i, i + 1) = ";;"
                 /\ LET w == RunEnd(code, i + 2, Whitespace)
                    IN  Slice(code, w, w + 4) = "WRONG"}
    IN  IF S = {} THEN [ok |-> FALSE, group0 |-> ""]
        ELSE
        LET i == CHOOSE x \in S : \A y \in S : x <= y
            k == RunEnd(code, RunEnd(code, i + 2, Whitespace) + 5,
                        Whitespace \cup {":"})
            T == {t \in k..Len(code) :
                     Slice(code, t, t + 2) = "\n;;" \/ Slice(code, t, t + 1) = "\n\n"}
            stop == IF T = {} THEN Len(code) + 1
                    ELSE LET t == CHOOSE x \in T : \A y \in T : x <= y
                         IN  IF Slice(code, t, t + 2) = "\n;;" THEN t + 3 ELSE t + 2
        IN  [ok |-> TRUE, group0 |-> SubSeq(code, i, stop - 1)]

\* the keys convert_cookbooks() reads with r[...]
RecipeRequiredKeys == {"id", "title", "code"}

\* a convert_cookbooks() that emits the imports variant for every recipe
RecipeEntriesImportsUnconditional(acc, r) ==
    LET rid == r.id
        title == r.title
        tags == Get(r, "tags", <<>>)
        imports == Get(r, "imports", <<>>)
        code == normalize_code(r.code)
        notes == Get(r, "notes", "")
        subject == RStripChar(Lower(title), ".")
        question == "How do I " \o subject \o " in Gerbil Scheme?"
        answer_parts ==
            (IF imports /= <<>>
             THEN <<"You'll need to import: " \o Join(imports, ", ")>> ELSE <<>>)
            \o <<"Here's how:\n\n" \o SchemeBlock(code)>>
            \o (IF notes /= "" THEN <<"\n**Notes:** " \o notes>> ELSE <<>>)
        answer == Join(answer_parts, "\n\n")
        v1 == EmitPair(acc, question, answer, "cookbook:" \o rid \o ":howto")
        example_q == "Show me an example of " \o subject \o " in Gerbil Scheme."
        example_a == SchemeBlock(code)
                     \o (IF notes /= "" THEN "\n\n" \o notes ELSE "")
        v2 == EmitPair(v1, example_q, example_a, "cookbook:" \o rid \o ":example")
        import_q == "What imports do I need to " \o subject \o " in Gerbil?"
        import_lines ==
            Join([i \in 1..Len(imports) |-> "(import " \o imports[i] \o ")"], "\n")
        import_a == "You need:\n\n" \o SchemeBlock(import_lines)
                    \o (IF notes /= "" /\ Contains(Lower(notes), "import")
                        THEN "\n\n" \o notes ELSE "")
        v3 == EmitPair(v2, import_q, import_a, "cookbook:" \o rid \o ":imports")
        wrong_match == WrongMatch(code)
        wrong_code == Strip(wrong_match.group0)
        gotcha_q == "What's a common mistake when " \o Join(Take(tags, 3), " ")
                    \o " in Gerbil Scheme?"
        gotcha_a == "**Common mistake:**\n\n" \o SchemeBlock(wrong_code)
                    \o "\n\n**The fix:** " \o notes
    IN  IF (InList("gotcha", tags) \/ Contains(Upper(title), "GOTCHA"))
           /\ wrong_match.ok
        THEN EmitPair(v3, gotcha_q, gotcha_a, "cookbook:" \o rid \o ":gotcha")
        ELSE v3

\* the entries convert_cookbooks() appends for one recipe that is not deprecated
RecipeEntries(acc, r) ==
    LET rid == r.id
        title == r.title
        tags == Get(r, "tags", <<>>)
        imports == Get(r, "imports", <<>>)
        code == normalize_code(r.code)
        notes == Get(r, "notes", "")
        subject == RStripChar(Lower(title), ".")
        question == "How do I " \o subject \o " in Gerbil Scheme?"
        answer_parts ==
            (IF imports /= <<>>
             THEN <<"You'll need to import: " \o Join(imports, ", ")>> ELSE <<>>)
            \o <<"Here's how:\n\n" \o SchemeBlock(code)>>
            \o (IF notes /= "" THEN <<"\n**Notes:** " \o notes>> ELSE <<>>)
        answer == Join(answer_parts, "\n\n")
        v1 == EmitPair(acc, question, answer, "cookbook:" \o rid \o ":howto")
        example_q == "Show me an example of " \o subject \o " in Gerbil Scheme."
        example_a == SchemeBlock(code)
                     \o (IF notes /= "" THEN "\n\n" \o notes ELSE "")
        v2 == EmitPair(v1, example_q, example_a, "cookbook:" \o rid \o ":example")
        import_q == "What imports do I need to " \o subject \o " in Gerbil?"
        import_lines ==
            Join([i \in 1..Len(imports) |-> "(import " \o imports[i] \o ")"], "\n")
        import_a == "You need:\n\n" \o SchemeBlock(import_lines)
                    \o (IF notes /= "" /\ Contains(Lower(notes), "import")
                        THEN "\n\n" \o notes ELSE "")
        v3 == IF imports /= <<>>
              THEN EmitPair(v2, import_q, import_a, "cookbook:" \o rid \o ":imports")
              ELSE v2
        wrong_match == WrongMatch(code)
        wrong_code == Strip(wrong_match.group0)
        gotcha_q == "What's a common mistake when " \o Join(Take(tags, 3), " ")
                    \o " in Gerbil Scheme?"
        gotcha_a == "**Common mistake:**\n\n" \o SchemeBlock(wrong_code)
                    \o "\n\n**The fix:** " \o notes
    IN  IF (InList("gotcha", tags) \/ Contains(Upper(title), "GOTCHA"))
           /\ wrong_match.ok
        THEN EmitPair(v3, gotcha_q, gotcha_a, "cookbook:" \o rid \o ":gotcha")
        ELSE v3

\* convert_cookbooks(recipes)
convert_cookbooks(recipes) ==
    LET F[i \in 0..Len(recipes)] ==
            IF i = 0 THEN Returned(<<>>, <<>>)
            ELSE LET r == recipes[i] IN
                 IF F[i - 1].exc /= "" THEN F[i - 1]
                 ELSE IF Get(r, "deprecated", FALSE) THEN F[i - 1]
                 ELSE IF ~(RecipeRequiredKeys \subseteq DOMAIN r) THEN Raised("KeyError")
                 ELSE RecipeEntries(F[i - 1], r)
    IN  F[Len(recipes)]

\* the keys convert_security_rules() reads with rule[...]
RuleRequiredKeys == {"id", "title", "severity", "scope", "message", "remediation"}

\* a convert_security_rules() whose "is it safe" answer is the message alone
RuleEntriesSafeIsMessage(acc, rule) ==
    LET rid == rule.id
        tags == Get(rule, "tags", <<>>)
        q == "What is the security risk of " \o Lower(rule.title)
             \o " in Gerbil Scheme?"
        a == "**Severity:** " \o rule.severity \o "\n"
             \o "**Scope:** " \o rule.scope \o "\n\n"
             \o "**Risk:** " \o rule.message \o "\n\n"
             \o "**Fix:** " \o rule.remediation
        safe_q == "Is it safe to use " \o Join(Take(tags, 3), " ")
                  \o " in Gerbil FFI code? What should I watch out for?"
    IN  EmitPair(EmitPair(acc, q, a, "security:" \o rid),
                 safe_q, rule.message, "security:" \o rid \o ":safe")

\* the entries convert_security_rules() appends for one rule
RuleEntries(acc, rule) ==
    LET rid == rule.id
        tags == Get(rule, "tags", <<>>)
        q == "What is the security risk of " \o Lower(rule.title)
             \o " in Gerbil Scheme?"
        a == "**Severity:** " \o rule.severity \o "\n"
             \o "**Scope:** " \o rule.scope \o "\n\n"
             \o "**Risk:** " \o rule.message \o "\n\n"
             \o "**Fix:** " \o rule.remediation
        safe_q == "Is it safe to use " \o Join(Take(tags, 3), " ")
                  \o " in Gerbil FFI code? What should I watch out for?"
        safe_a == rule.message \o "\n\n**Remediation:** " \o rule.remediation
    IN  EmitPair(EmitPair(acc, q, a, "security:" \o rid),
                 safe_q, safe_a, "security:" \o rid \o ":safe")

\* convert_security_rules(rules)
convert_security_rules(rules) ==
    LET F[i \in 0..Len(rules)] ==
            IF i = 0 THEN Returned(<<>>, <<>>)
            ELSE IF F[i - 1].exc /= "" THEN F[i - 1]
            ELSE IF ~(RuleRequiredKeys \subseteq DOMAIN rules[i]) THEN Raised("KeyError")
            ELSE RuleEntries(F[i - 1], rules[i])
    IN  F[Len(rules)]

\* a convert_error_fixes() whose answer holds the examples only
FixEntriesExamplesOnly(acc, fix) ==
    LET pattern == Get(fix, "pattern", "")
        code_example == Get(fix, "code_example", "")
        wrong_example == Get(fix, "wrong_example", "")
        q == "I'm getting this Gerbil error: \"" \o pattern \o "\". How do I fix it?"
        a_parts ==
            (IF wrong_example /= ""
             THEN <<"**Wrong:**\n" \o SchemeBlock(normalize_code(wrong_example))>>
             ELSE <<>>)
            \o (IF code_example /= ""
                THEN <<"**Correct:**\n" \o SchemeBlock(normalize_code(code_example))>>
                ELSE <<>>)
    IN  EmitPair(acc, q, Join(a_parts, "\n\n"), "errorfix:" \o fix.id)

\* the entry convert_error_fixes() appends for one fix that is not test-only
FixEntries(acc, fix) ==
    LET pattern == Get(fix, "pattern", "")
        fix_text == Get(fix, "fix", "")
        code_example == Get(fix, "code_example", "")
        wrong_example == Get(fix, "wrong_example", "")
        fix_type == Get(fix, "type", "Error")
        q == "I'm getting this Gerbil error: \"" \o pattern \o "\". How do I fix it?"
        a_parts ==
            <<"**Type:** " \o fix_type \o "\n\n**Explanation:** " \o fix_text>>
            \o (IF wrong_example /= ""
                THEN <<"**Wrong:**\n" \o SchemeBlock(normalize_code(wrong_example))>>
                ELSE <<>>)
            \o (IF code_example /= ""
                THEN <<"**Correct:**\n" \o SchemeBlock(normalize_code(code_example))>>
                ELSE <<>>)
    IN  EmitPair(acc, q, Join(a_parts, "\n\n"), "errorfix:" \o fix.id)

\* a convert_error_fixes() that converts the test-only fixes as well
convert_error_fixes_with_tests(fixes) ==
    LET F[i \in 0..Len(fixes)] ==
            IF i = 0 THEN Returned(<<>>, <<>>)
            ELSE IF F[i - 1].exc /= "" THEN F[i - 1]
            ELSE IF "id" \notin DOMAIN fixes[i] THEN Raised("KeyError")
            ELSE FixEntries(F[i - 1], fixes[i])
    IN  F[Len(fixes)]

\* convert_error_fixes(fixes)
convert_error_fixes(fixes) ==
    LET F[i \in 0..Len(fixes)] ==
            IF i = 0 THEN Returned(<<>>, <<>>)
            ELSE IF F[i - 1].exc /= "" THEN F[i - 1]
            ELSE IF "id" \notin DOMAIN fixes[i] THEN Raised("KeyError")
            ELSE IF StartsWith(fixes[i].id, "test-") THEN F[i - 1]
            ELSE FixEntries(F[i - 1], fixes[i])
    IN  F[Len(fixes)]

(***************************************************************************)
(* Source 4: markdown documents                                            *)
(***************************************************************************)

\* one iteration of split_markdown_sections()'s loop over
\* st = (sections, current_heading, current_body)
SplitSectionsStep(st, line) ==
    IF StartsWith(line, "#")
    THEN [sections |->
              IF st.current_heading /= "" \/ st.current_body /= <<>>
              THEN Append(st.sections,
                          [heading |-> st.current_heading,
                           body |-> Strip(Join(st.current_body, "\n"))])
              ELSE st.sections,
          current_heading |-> Strip(LStripChar(line, "#")),
          current_body |-> <<>>]
    ELSE [sections |-> st.sections,
          current_heading |-> st.current_heading,
          current_body |-> Append(st.current_body, line)]

\* split_markdown_sections(content), content given as content.split("\n")
split_markdown_sections(lines) ==
    LET F[i \in 0..Len(lines)] ==
            IF i = 0
            THEN [sections |-> <<>>, current_heading |-> "", current_body |-> <<>>]
            ELSE SplitSectionsStep(F[i - 1], lines[i])
        st == F[Len(lines)]
    IN  IF st.current_heading /= "" \/ st.current_body /= <<>>
        THEN Append(st.sections,
                    [heading |-> st.current_heading,
                     body |-> Strip(Join(st.current_body, "\n"))])
        ELSE st.sections

\* content.strip().split("\n")[0]
FirstLine(content) ==
    LET t == Strip(content)
        i == IndexOf(t, "\n")
    IN  IF i = 0 THEN t ELSE SubSeq(t, 1, i - 1)

\* s[:n]
Prefix(s, n) == IF Len(s) <= n THEN s ELSE SubSeq(s, 1, n)

\* whole documents below this many characters get a ":full" entry
MarkdownFullLimit == 8000

\* sections with a body below this many characters are skipped
MinSectionBody == 100

\* the part of a section heading kept in the identifier
HeadingIdLen == 40

StructuralHeadings == {"table of contents", "contents", "readme"}

\* the relpath convert_markdown_doc() and convert_source_file() compute
DocRelPath(filepath) ==
    IF StartsWith(filepath, GERBIL_DIR) THEN RelPath(filepath, GERBIL_DIR)
    ELSE Basename(filepath)

\* the section loop of convert_markdown_doc()
MarkdownSectionEntries(r, sections, source_id) ==
    LET F[i \in 0..Len(sections)] ==
            IF i = 0 THEN r
            ELSE LET heading == sections[i].heading
                     body == sections[i].body
                 IN  IF heading = "" \/ body = "" \/ Len(body) < MinSectionBody
                     THEN F[i - 1]
                     ELSE IF Lower(heading) \in StructuralHeadings
                     THEN F[i - 1]
                     ELSE EmitPair(F[i - 1],
                                   "Explain " \o heading \o " in Gerbil Scheme.",
                                   body,
                                   source_id \o ":" \o Prefix(heading, HeadingIdLen))
    IN  F[Len(sections)]

\* a convert_markdown_doc() that emits the whole document whatever its size
convert_markdown_doc_any_size(file) ==
    IF file.read \in {"FileNotFoundError", "PermissionError"}
    THEN Returned(<<>>, <<>>)
    ELSE IF file.read /= "ok" THEN Raised(file.read)
    ELSE
    LET content == ContentOf(file) IN
    IF Strip(content) = "" THEN Returned(<<>>, <<>>)
    ELSE
    LET source_id == "doc:" \o DocRelPath(file.path)
        first_line == FirstLine(content)
        doc_title == IF StartsWith(first_line, "#")
                     THEN Strip(LStripChar(first_line, "#")) ELSE ""
        full == IF doc_title /= ""
                THEN EmitPair(Returned(<<>>, <<>>),
                              "Explain " \o doc_title \o " in Gerbil Scheme.",
                              Strip(content), source_id \o ":full")
                ELSE Returned(<<>>, <<>>)
    IN  MarkdownSectionEntries(full, split_markdown_sections(file.lines), source_id)

\* convert_markdown_doc(filepath, doc_type)
convert_markdown_doc(file) ==
    IF file.read \in {"FileNotFoundError", "PermissionError"}
    THEN Returned(<<>>, <<>>)
    ELSE IF file.read /= "ok" THEN Raised(file.read)
    ELSE
    LET content == ContentOf(file) IN
    IF Strip(content) = "" THEN Returned(<<>>, <<>>)
    ELSE
    LET source_id == "doc:" \o DocRelPath(file.path)
        first_line == FirstLine(content)
        doc_title == IF StartsWith(first_line, "#")
                     THEN Strip(LStripChar(first_line, "#")) ELSE ""
        full == IF Len(content) < MarkdownFullLimit /\ doc_title /= ""
                THEN EmitPair(Returned(<<>>, <<>>),
                              "Explain " \o doc_title \o " in Gerbil Scheme.",
                              Strip(content), source_id \o ":full")
                ELSE Returned(<<>>, <<>>)
    IN  MarkdownSectionEntries(full, split_markdown_sections(file.lines), source_id)

(***************************************************************************)
(* Source 5: API reference documents                                       *)
(***************************************************************************)

Digits == {"0", "1", "2", "3", "4", "5", "6", "7", "8", "9"}

\* [a-zA-Z_!?*<>=+\-/]
NameStartChars ==
    DOMAIN LowerOf \cup {LowerOf[c] : c \in DOMAIN LowerOf}
        \cup {"_", "!", "?", "*", "<", ">", "=", "+", "-", "/"}

\* [a-zA-Z0-9_!?*<>=+\-/]
NameChars == NameStartChars \cup Digits

\* ^ under re.MULTILINE
AtLineStart(s, i) == i = 1 \/ CharAt(s, i - 1) = "\n"

\* the lookahead ^#{2,3}\s at position i
HeadingAhead(s, i) ==
    /\ AtLineStart(s, i)
    /\ \/ Slice(s, i, i + 1) = "##" /\ CharAt(s, i + 2) \in Whitespace
       \/ Slice(s, i, i + 2) = "###" /\ CharAt(s, i + 3) \in Whitespace

\* the last position in lo..hi holding "\n", 0 if none
LastNewline(s, lo, hi) ==
    LET N == {k \in lo..hi : CharAt(s, k) = "\n"} IN
    IF N = {} THEN 0 ELSE CHOOSE k \in N : \A m \in N : m <= k

\* an optional backquote at position i: the position after it
SkipBackquote(s, i) == IF CharAt(s, i) = Backquote THEN i + 1 ELSE i

\* the outcome of trying the heading pattern at p: hashes up to h, blanks up to
\* q, the name in n..e-1, the newline that ends the heading at nl (0 if none)
ApiHeadingMatch(s, p, h, q, n, e, nl) ==
    [ok |-> /\ AtLineStart(s, p)
            /\ h - p \in {2, 3}
            /\ q > h
            /\ CharAt(s, n) \in NameStartChars
            /\ nl /= 0,
     name |-> SubSeq(s, n, e - 1),
     body_start |-> nl + 1]

\* ^#{2,3}\s+~?(name)~?\s*\n tried at position p: whether it matches, the name,
\* and where the body starts
ApiHeadingAt(s, p) ==
    LET h == RunEnd(s, p, {"#"})
        q == RunEnd(s, h, Whitespace)
        n == SkipBackquote(s, q)
        e == RunEnd(s, n, NameChars)
        t == SkipBackquote(s, e)
        nl == LastNewline(s, t, RunEnd(s, t, Whitespace) - 1)
    IN  ApiHeadingMatch(s, p, h, q, n, e, nl)

\* where the lazy body (.*?) starting at position b stops: the first heading
\* ahead, or the end of the document
ApiBodyEnd(s, b) ==
    LET H == {i \in b..Len(s) : HeadingAhead(s, i)} IN
    IF H = {} THEN Len(s) + 1 ELSE CHOOSE i \in H : \A j \in H : i <= j

\* the positions from pos on where the heading pattern matches
ApiHeadingPositions(s, pos) ==
    {p \in pos..Len(s) : Slice(s, p, p + 1) = "##" /\ ApiHeadingAt(s, p).ok}

RECURSIVE ApiMatches(_, _)
\* the match whose heading is m and whose body stops before position stop,
\* followed by the matches after it
ApiMatchThenRest(s, m, stop) ==
    <<[name |-> m.name, doc |-> SubSeq(s, m.body_start, stop - 1)]>>
    \o ApiMatches(s, stop)

\* the match with heading m, followed by the matches after it
ApiMatchFrom(s, m) == ApiMatchThenRest(s, m, ApiBodyEnd(s, m.body_start))

\* the matches, given the positions P where the heading pattern matches
ApiMatchesAmong(s, P) ==
    IF P = {} THEN <<>>
    ELSE ApiMatchFrom(s, ApiHeadingAt(s, CHOOSE i \in P : \A j \in P : i <= j))

\* pattern.finditer(content) from position pos on: (group(1), group(2)) of
\* each match
ApiMatches(s, pos) == ApiMatchesAmong(s, ApiHeadingPositions(s, pos))

\* function docs shorter than this are skipped
MinApiDoc == 50

\* the module label extract_api_entries() derives from the path
ApiModule(filepath) ==
    IF Contains(filepath, "/std/")
    THEN ":std/" \o Replace(Replace(Split(filepath, "/std/")[2], ".md", ""), "/", "/")
    ELSE IF Contains(filepath, "/gerbil/")
    THEN ":gerbil/"
         \o Replace(Replace(Split(filepath, "/gerbil/")[2], ".md", ""), "/", "/")
    ELSE ""

\* the loop of extract_api_entries() over the matches
ApiEntries(matches, module, source_id) ==
    LET F[i \in 0..Len(matches)] ==
            IF i = 0 THEN Returned(<<>>, <<>>)
            ELSE LET func_name == Strip(matches[i].name)
                     func_doc == Strip(matches[i].doc)
                     q == "What does " \o Backquote \o func_name \o Backquote
                          \o " do in Gerbil Scheme?"
                          \o (IF module /= "" THEN " (from " \o module \o ")" ELSE "")
                 IN  IF Len(func_doc) < MinApiDoc THEN F[i - 1]
                     ELSE EmitPair(F[i - 1], q, func_doc,
                                   source_id \o ":" \o func_name)
    IN  F[Len(matches)]

\* extract_api_entries(filepath)
extract_api_entries(file) ==
    IF file.read \in {"FileNotFoundError", "PermissionError"}
    THEN Returned(<<>>, <<>>)
    ELSE IF file.read /= "ok" THEN Raised(file.read)
    ELSE ApiEntries(ApiMatches(ContentOf(file), 1), ApiModule(file.path),
                    "api:" \o RelPath(file.path, GERBIL_DIR))

(***************************************************************************)
(* Sources 6-14: source files, tutorials, examples, tests, directory scans *)
(***************************************************************************)

\* source files and examples shorter than this are skipped
MinSourceLen == 50

\* convert_source_file(filepath, description)
convert_source_file(file, description) ==
    IF file.read \in {"FileNotFoundError", "PermissionError"}
    THEN Returned(<<>>, <<>>)
    ELSE IF file.read /= "ok" THEN Raised(file.read)
    ELSE
    LET content == ContentOf(file) IN
    IF Strip(content) = "" \/ Len(content) < MinSourceLen THEN Returned(<<>>, <<>>)
    ELSE
    LET relpath == DocRelPath(file.path)
        source_id == "source:" \o relpath
        desc == IF description = "" THEN "the " \o Basename(file.path) \o " module"
                ELSE description
        q == "Show me an example implementation of " \o desc \o " in Gerbil Scheme."
        a == "Here's the implementation from " \o Backquote \o relpath \o Backquote
             \o ":\n\n" \o SchemeBlock(Strip(content))
    IN  EmitPair(Returned(<<>>, <<>>), q, a, source_id \o ":full")

\* whole tutorials below this many characters get a ":full" entry
TutorialFullLimit == 12000

\* convert_tutorial(filepath)
convert_tutorial(file) ==
    IF file.read \in {"FileNotFoundError", "PermissionError"}
    THEN Returned(<<>>, <<>>)
    ELSE IF file.read /= "ok" THEN Raised(file.read)
    ELSE
    LET content == ContentOf(file)
        source_id == "tutorial:" \o RelPath(file.path, GERBIL_DIR)
        first_line == FirstLine(content)
        title == IF StartsWith(first_line, "#")
                 THEN Strip(LStripChar(first_line, "#")) ELSE ""
        full == IF Len(content) < TutorialFullLimit /\ title /= ""
                THEN EmitPair(Returned(<<>>, <<>>),
                              "Walk me through building " \o Lower(title)
                                  \o " in Gerbil Scheme.",
                              Strip(content), source_id \o ":full")
                ELSE Returned(<<>>, <<>>)
        sections == convert_markdown_doc(file)
    IN  IF sections.exc /= "" THEN sections ELSE Extend(full, sections)

\* every order in which a directory scan (glob.glob) can list the files in S
Orders(S) ==
    {o \in [1..Cardinality(S) -> S] : \A i, j \in 1..Cardinality(S) : o[i] = o[j] => i = j}

\* a loop over a listing that extends the two lists with what the adapter
\* returned for each file (results[i] for the i-th file); an exception of the
\* adapter ends the loop and propagates
ForEachFile(acc, results) ==
    LET F[i \in 0..Len(results)] ==
            IF i = 0 THEN acc
            ELSE IF F[i - 1].exc /= "" THEN F[i - 1]
            ELSE IF results[i].exc /= "" THEN results[i]
            ELSE Extend(F[i - 1], results[i])
    IN  F[Len(results)]

\* the examples dict of convert_gambit_examples(), in its order
GambitExamples ==
    << [dirname |-> "tcltk", description |-> "Tcl/Tk GUI integration via Gambit FFI"],
       [dirname |-> "web-repl", description |-> "web-based REPL server"],
       [dirname |-> "web-server", description |-> "HTTP web server"],
       [dirname |-> "ring", description |-> "distributed ring topology"],
       [dirname |-> "pthread", description |-> "POSIX thread integration"],
       [dirname |-> "pi", description |-> "Pi computation"],
       [dirname |-> "misc", description |-> "miscellaneous Gambit examples"] >>

\* the body of convert_gambit_examples()'s loop over the files of one directory
GambitFileEntries(file, dirname, description) ==
    IF file.read /= "ok" THEN Returned(<<>>, <<>>)
    ELSE
    LET content == ContentOf(file) IN
    IF Len(content) < MinSourceLen THEN Returned(<<>>, <<>>)
    ELSE
    LET basename == Basename(file.path)
        source_id == "gambit:examples/" \o dirname \o "/" \o basename
        q == "Show me a Gambit Scheme example of " \o description \o "."
        a == "Here's " \o Backquote \o dirname \o "/" \o basename \o Backquote
             \o " from the Gambit examples:\n\n" \o SchemeBlock(Strip(content))
    IN  EmitPair(Returned(<<>>, <<>>), q, a, source_id)

\* convert_gambit_examples(); gambit.dirs are the example directories that
\* exist, listing the *.scm files in the order the scans return them
convert_gambit_examples(gambit, listing) ==
    LET F[k \in 0..Len(GambitExamples)] ==
            IF k = 0 THEN Returned(<<>>, <<>>)
            ELSE LET dirname == GambitExamples[k].dirname
                     dirpath == GAMBIT_DIR \o "/examples/" \o dirname
                     here(f) == f.path = dirpath \o "/" \o Basename(f.path)
                     scm_files == SelectSeq(listing, here)
                 IN  IF dirname \notin gambit.dirs THEN F[k - 1]
                     ELSE ForEachFile(F[k - 1],
                              [i \in 1..Len(scm_files) |->
                                  GambitFileEntries(scm_files[i], dirname,
                                                    GambitExamples[k].description)])
    IN  F[Len(GambitExamples)]

\* test files outside this size window are skipped
MinTestLen == 100
MaxTestLen == 15000

\* the body of convert_test_files()'s loop
TestFileEntries(file) ==
    IF file.read /= "ok" THEN Returned(<<>>, <<>>)
    ELSE
    LET content == ContentOf(file) IN
    IF Len(content) < MinTestLen \/ Len(content) > MaxTestLen
    THEN Returned(<<>>, <<>>)
    ELSE
    LET relpath == RelPath(file.path, GERBIL_DIR)
        source_id == "test:" \o relpath
        module_path ==
            Replace(Replace(Replace(relpath, "src/std/", ":std/"), "-test.ss", ""),
                    "/", "/")
        q == "Show me test examples for the " \o module_path
             \o " module in Gerbil Scheme."
        a == "Here are test examples from " \o Backquote \o relpath \o Backquote
             \o ":\n\n" \o SchemeBlock(Strip(content))
    IN  EmitPair(Returned(<<>>, <<>>), q, a, source_id \o ":full")

\* convert_test_files()
convert_test_files(listing) ==
    ForEachFile(Returned(<<>>, <<>>),
                [i \in 1..Len(listing) |-> TestFileEntries(listing[i])])

\* convert_resource_mds()
convert_resource_mds(dir, listing) ==
    IF ~dir.exists THEN Returned(<<>>, <<>>)
    ELSE ForEachFile(Returned(<<>>, <<>>),
                     [i \in 1..Len(listing) |-> convert_markdown_doc(listing[i])])

\* convert_guide_docs()
convert_guide_docs(dir, listing) ==
    IF ~dir.exists THEN Returned(<<>>, <<>>)
    ELSE ForEachFile(Returned(<<>>, <<>>),
                     [i \in 1..Len(listing) |-> convert_markdown_doc(listing[i])])

\* the body of convert_all_reference_docs()'s loop
ReferenceFileEntries(file) ==
    LET c == convert_markdown_doc(file) IN
    IF c.exc /= "" THEN c
    ELSE LET c2 == extract_api_entries(file) IN
         IF c2.exc /= "" THEN c2 ELSE Extend(c, c2)

\* convert_all_reference_docs()
convert_all_reference_docs(dir, listing) ==
    IF ~dir.exists THEN Returned(<<>>, <<>>)
    ELSE ForEachFile(Returned(<<>>, <<>>),
                     [i \in 1..Len(listing) |-> ReferenceFileEntries(listing[i])])

\* the descriptions dict of convert_all_tutorials(): .get(name, name)
TutorialDescription(name) ==
    CASE name = "httpd" -> "a simple HTTP server"
      [] name = "kvstore" -> "a key-value store with RPC"
      [] name = "proxy" -> "a TCP proxy"
      [] name = "lang" -> "a custom language extension"
      [] name = "ensemble" -> "a distributed actor ensemble"
      [] OTHER -> name

\* the body of convert_all_tutorials()'s loop over the tutorial sources
TutorialSourceEntries(file) ==
    LET tutorial_dir == GERBIL_DIR \o "/src/tutorial"
        parts == Split(RelPath(file.path, tutorial_dir), "/")
    IN  convert_source_file(file, TutorialDescription(parts[1]))

\* convert_all_tutorials()
convert_all_tutorials(src_dir, src_listing, doc_dir, doc_listing) ==
    LET sources == IF src_dir.exists
                   THEN ForEachFile(Returned(<<>>, <<>>),
                            [i \in 1..Len(src_listing) |->
                                TutorialSourceEntries(src_listing[i])])
                   ELSE Returned(<<>>, <<>>)
    IN  IF sources.exc /= "" \/ ~doc_dir.exists THEN sources
        ELSE ForEachFile(sources,
                 [i \in 1..Len(doc_listing) |-> convert_tutorial(doc_listing[i])])

\* the key_modules dict of convert_std_source_files(), in its order
KeyModules ==
    << [path |-> "src/std/sugar.ss",
        description |-> "syntactic sugar (try/catch, hash, chain, when-let)"],
       [path |-> "src/std/iter.ss",
        description |-> "the iteration framework (for, for/collect, in-range)"],
       [path |-> "src/std/error.ss",
        description |-> "error handling and custom error classes"],
       [path |-> "src/std/test.ss", description |-> "the unit testing framework"],
       [path |-> "src/std/sort.ss", description |-> "sorting algorithms"],
       [path |-> "src/std/event.ss", description |-> "the event system"],
       [path |-> "src/std/coroutine.ss", description |-> "coroutines"],
       [path |-> "src/std/amb.ss",
        description |-> "nondeterministic computation (amb operator)"],
       [path |-> "src/std/generic.ss", description |-> "generic function dispatch"],
       [path |-> "src/std/interface.ss", description |-> "interface definitions"],
       [path |-> "src/std/actor.ss", description |-> "the actor system"],
       [path |-> "src/std/misc/hash.ss",
        description |-> "extended hash table operations"],
       [path |-> "src/std/misc/list.ss", description |-> "extended list operations"],
       [path |-> "src/std/misc/string.ss",
        description |-> "extended string operations"],
       [path |-> "src/std/misc/path.ss",
        description |-> "filesystem path operations"],
       [path |-> "src/std/misc/channel.ss", description |-> "Go-style channels"],
       [path |-> "src/std/misc/threads.ss", description |-> "thread utilities"],
       [path |-> "src/std/misc/alist.ss",
        description |-> "association list operations"],
       [path |-> "src/std/misc/bytes.ss", description |-> "byte vector operations"],
       [path |-> "src/std/misc/process.ss",
        description |-> "process execution (run-process)"],
       [path |-> "src/std/text/json.ss",
        description |-> "JSON parsing and generation"] >>

\* library sources above this many characters are truncated
StdTruncateAbove == 20000

\* the lines kept of a truncated library source
StdKeptLines == 500

\* the entry convert_std_source_files() appends for the file found for one module
StdFileEntries(file, mod_path, description) ==
    IF file.read /= "ok" THEN Returned(<<>>, <<>>)
    ELSE
    LET read == ContentOf(file) IN
    IF Len(read) < MinSourceLen THEN Returned(<<>>, <<>>)
    ELSE
    LET content == IF Len(read) > StdTruncateAbove
                   THEN Join(Take(file.lines, StdKeptLines), "\n")
                        \o "\n;; ... (truncated)"
                   ELSE read
        source_id == "std-source:" \o mod_path
        q == "Show me the implementation of " \o description
             \o " in Gerbil's standard library."
        a == "Here's the source from " \o Backquote \o mod_path \o Backquote
             \o ":\n\n" \o SchemeBlock(Strip(content))
    IN  EmitPair(Returned(<<>>, <<>>), q, a, source_id \o ":full")

\* convert_std_source_files(); present are the files that exist under GERBIL_DIR
convert_std_source_files(present) ==
    LET At(path) == {f \in present : f.path = path}
        F[k \in 0..Len(KeyModules)] ==
            IF k = 0 THEN Returned(<<>>, <<>>)
            ELSE LET mod_path == KeyModules[k].path
                     filepath == GERBIL_DIR \o "/" \o mod_path
                     alt == Replace(filepath, ".ss", "/api.ss")
                     found == IF At(filepath) /= {} THEN At(filepath) ELSE At(alt)
                 IN  IF found = {} THEN F[k - 1]
                     ELSE Extend(F[k - 1],
                                 StdFileEntries(CHOOSE f \in found : TRUE, mod_path,
                                                KeyModules[k].description))
    IN  F[Len(KeyModules)]

(***************************************************************************)
(* main()                                                                  *)
(***************************************************************************)

\* json.load() of a required file, then what `for x in loaded` iterates over:
\* the records of an array, nothing for an empty object
LoadJson(file) ==
    CASE file.kind = "missing" -> [exc |-> "FileNotFoundError", items |-> <<>>]
      [] file.kind = "notjson" -> [exc |-> "JSONDecodeError", items |-> <<>>]
      [] file.kind = "emptyobject" -> [exc |-> "", items |-> <<>>]
      [] OTHER -> [exc |-> "", items |-> file.records]

\* with open(...) as f: xs = json.load(f); c, a = convert(xs), where converted
\* is what convert returns for the loaded items
LoadAndConvert(file, converted) ==
    IF LoadJson(file).exc /= "" THEN Raised(LoadJson(file).exc) ELSE converted

\* a main() that forgets all_alpaca.extend(a)
AccumulateConversationalOnly(r, next_pc) ==
    IF r.exc /= ""
    THEN /\ pc' = "aborted"
         /\ failure' = r.exc
         /\ UNCHANGED <<all_chatml, all_alpaca>>
    ELSE /\ pc' = next_pc
         /\ all_chatml' = all_chatml \o r.chatml
         /\ UNCHANGED <<all_alpaca, failure>>

\* a main() that puts what an adapter returned in front of the streams
AccumulateInFront(r, next_pc) ==
    IF r.exc /= ""
    THEN /\ pc' = "aborted"
         /\ failure' = r.exc
         /\ UNCHANGED <<all_chatml, all_alpaca>>
    ELSE /\ pc' = next_pc
         /\ all_chatml' = r.chatml \o all_chatml
         /\ all_alpaca' = r.alpaca \o all_alpaca
         /\ UNCHANGED failure

\* all_chatml.extend(c); all_alpaca.extend(a), or the exception ends main()
Accumulate(r, next_pc) ==
    IF r.exc /= ""
    THEN /\ pc' = "aborted"
         /\ failure' = r.exc
         /\ UNCHANGED <<all_chatml, all_alpaca>>
    ELSE /\ pc' = next_pc
         /\ all_chatml' = all_chatml \o r.chatml
         /\ all_alpaca' = all_alpaca \o r.alpaca
         /\ UNCHANGED failure

Untouched ==
    UNCHANGED <<dvars, avars, corpus, tree, pre_chatml, pre_alpaca, output_dir,
                written, outfiles, summary>>

\* os.makedirs(OUTPUT_DIR, exist_ok=True)
MakeOutputDir ==
    /\ pc = "start"
    /\ output_dir' = TRUE
    /\ pc' = "cookbooks"
    /\ UNCHANGED <<dvars, avars, corpus, tree, all_chatml, all_alpaca, pre_chatml,
                   pre_alpaca, written, outfiles, summary, failure>>

\* 1. cookbooks.json
Cookbooks ==
    /\ pc = "cookbooks"
    /\ Accumulate(LoadAndConvert(corpus.cookbooks,
                                 convert_cookbooks(LoadJson(corpus.cookbooks).items)),
                  "security")
    /\ Untouched

\* 2. security-rules.json
SecurityRules ==
    /\ pc = "security"
    /\ Accumulate(LoadAndConvert(corpus.rules,
                                 convert_security_rules(LoadJson(corpus.rules).items)),
                  "errorfixes")
    /\ Untouched

\* 3. error-fixes.json
ErrorFixes ==
    /\ pc = "errorfixes"
    /\ Accumulate(LoadAndConvert(corpus.fixes,
                                 convert_error_fixes(LoadJson(corpus.fixes).items)),
                  "resources")
    /\ Untouched

\* 4. resource markdown
ResourceMds ==
    /\ pc = "resources"
    /\ \E listing \in Orders(tree.resources.files) :
           Accumulate(convert_resource_mds(tree.resources, listing), "guide")
    /\ Untouched

\* 5. guide documents
GuideDocs ==
    /\ pc = "guide"
    /\ \E listing \in Orders(tree.guide.files) :
           Accumulate(convert_guide_docs(tree.guide, listing), "reference")
    /\ Untouched

\* 6. reference documents
ReferenceDocs ==
    /\ pc = "reference"
    /\ \E listing \in Orders(tree.reference.files) :
           Accumulate(convert_all_reference_docs(tree.reference, listing), "tutorials")
    /\ Untouched

\* 7. tutorials
Tutorials ==
    /\ pc = "tutorials"
    /\ \E src_listing \in Orders(tree.tutorial_src.files),
          doc_listing \in Orders(tree.tutorial_docs.files) :
           Accumulate(convert_all_tutorials(tree.tutorial_src, src_listing,
                                            tree.tutorial_docs, doc_listing),
                      "gambit")
    /\ Untouched

\* 8. Gambit examples
GambitExamplesStep ==
    /\ pc = "gambit"
    /\ \E listing \in Orders(tree.gambit.files) :
           Accumulate(convert_gambit_examples(tree.gambit, listing), "tests")
    /\ Untouched

\* 9. test files
TestFiles ==
    /\ pc = "tests"
    /\ \E listing \in Orders(tree.tests) :
           Accumulate(convert_test_files(listing), "std")
    /\ Untouched

\* 10. standard library sources
StdSources ==
    /\ pc = "std"
    /\ Accumulate(convert_std_source_files(tree.std), "dedup")
    /\ Untouched

\* a main() that deduplicates the conversational stream only
DedupConversationalOnly ==
    /\ pc = "dedup"
    /\ pre_chatml' = all_chatml
    /\ pre_alpaca' = all_alpaca
    /\ all_chatml' = deduplicate(all_chatml, "source")
    /\ pc' = "write_chatml"
    /\ UNCHANGED <<dvars, avars, corpus, tree, all_alpaca, output_dir, written,
                   outfiles, summary, failure>>

\* all_chatml = deduplicate(all_chatml, "source"), and the same for all_alpaca
Dedup ==
    /\ pc = "dedup"
    /\ pre_chatml' = all_chatml
    /\ pre_alpaca' = all_alpaca
    /\ all_chatml' = deduplicate(all_chatml, "source")
    /\ all_alpaca' = deduplicate(all_alpaca, "source")
    /\ pc' = "write_chatml"
    /\ UNCHANGED <<dvars, avars, corpus, tree, output_dir, written, outfiles,
                   summary, failure>>

\* with open(path, "w") as f: one entry per line, or the whole list as an array
WriteFile(name, stream, next_pc) ==
    /\ written' = Append(written, name)
    /\ outfiles' = [outfiles EXCEPT ![name] = stream]
    /\ pc' = next_pc
    /\ UNCHANGED <<dvars, avars, corpus, tree, all_chatml, all_alpaca, pre_chatml,
                   pre_alpaca, output_dir, summary, failure>>

OutputNames ==
    {"training_data.jsonl", "training_data_alpaca.jsonl", "training_data_alpaca.json"}

WriteChatml ==
    pc = "write_chatml" /\ WriteFile("training_data.jsonl", all_chatml, "write_alpaca")

WriteAlpaca ==
    pc = "write_alpaca"
        /\ WriteFile("training_data_alpaca.jsonl", all_alpaca, "write_json")

\* a main() that writes the flat stream as it was before deduplication into
\* the JSON array
WriteAlpacaJsonBeforeDedup ==
    pc = "write_json" /\ WriteFile("training_data_alpaca.json", pre_alpaca, "stats")

WriteAlpacaJson ==
    pc = "write_json" /\ WriteFile("training_data_alpaca.json", all_alpaca, "stats")

\* src.split(":")[0]
Category(src) == Split(src, ":")[1]

\* the source_counts dict after the loop over the first i entries: its keys in
\* insertion order, and the count of each
SourceCounts(es) ==
    LET F[i \in 0..Len(es)] ==
            IF i = 0 THEN <<>>
            ELSE LET cat == Category(Get(es[i], "source", "unknown"))
                     prev == F[i - 1]
                 IN  IF \E k \in 1..Len(prev) : prev[k].cat = cat
                     THEN [k \in 1..Len(prev) |->
                              IF prev[k].cat = cat
                              THEN [cat |-> cat, count |-> prev[k].count + 1]
                              ELSE prev[k]]
                     ELSE Append(prev, [cat |-> cat, count |-> 1])
    IN  F[Len(es)]

\* a summary that keeps the order in which the categories were first met
SortedByCountUnsorted(items) == items

\* sorted(items, key=lambda x: -x[1]): stable, by descending count
SortedByCount(items) ==
    LET Insert(sorted, x) ==
            LET After == {k \in 1..Len(sorted) : sorted[k].count < x.count}
                at == IF After = {} THEN Len(sorted) + 1
                      ELSE CHOOSE k \in After : \A m \in After : k <= m
            IN  SubSeq(sorted, 1, at - 1) \o <<x>> \o SubSeq(sorted, at, Len(sorted))
        F[i \in 0..Len(items)] ==
            IF i = 0 THEN <<>> ELSE Insert(F[i - 1], items[i])
    IN  F[Len(items)]

\* the statistics printed at the end
Stats ==
    /\ pc = "stats"
    /\ summary' = SortedByCount(SourceCounts(all_chatml))
    /\ pc' = "done"
    /\ UNCHANGED <<dvars, avars, corpus, tree, all_chatml, all_alpaca, pre_chatml,
                   pre_alpaca, output_dir, written, outfiles, failure>>

Next ==
    \/ MakeOutputDir
    \/ Cookbooks
    \/ SecurityRules
    \/ ErrorFixes
    \/ ResourceMds
    \/ GuideDocs
    \/ ReferenceDocs
    \/ Tutorials
    \/ GambitExamplesStep
    \/ TestFiles
    \/ StdSources
    \/ Dedup
    \/ WriteChatml
    \/ WriteAlpaca
    \/ WriteAlpacaJson
    \/ Stats

(***************************************************************************)
(* The inputs of a run                                                     *)
(***************************************************************************)

TextA == "Gerbil programs are organised in modules; every module names what it exports and imports what it needs."
TextB == "Install the compiler, put its bin directory on the PATH and check the installation by starting the interpreter."
TextC == "A second way to set things up is to build from source, which takes longer but tracks the development branch."

File(path, lines) == [path |-> path, read |-> "ok", lines |-> lines]
Unreadable(path, error) == [path |-> path, read |-> error, lines |-> <<"">>]
Dir(files) == [exists |-> TRUE, files |-> files]
NoDir == [exists |-> FALSE, files |-> {}]

RecipeA ==
    [id |-> "r1", title |-> "Read a file.", tags |-> <<"io">>,
     imports |-> <<":std/misc/io">>, code |-> "(read-file-string \"a.txt\")",
     notes |-> "", gerbil_version |-> "v0.18", deprecated |-> FALSE]

RecipeB ==
    [id |-> "r2", title |-> "Hash lookup gotcha", tags |-> <<"gotcha", "hash">>,
     imports |-> <<>>,
     code |-> ";; WRONG: (hash-ref h k)\\n;; RIGHT:\\n(hash-get h k)",
     notes |-> "Use hash-get.", gerbil_version |-> "v0.18"]

\* a second recipe filed under the identifier of RecipeA
RecipeA2 ==
    [id |-> "r1", title |-> "Read a file into a string", tags |-> <<"io">>,
     imports |-> <<>>, code |-> "(read-file-string path)", notes |-> "",
     gerbil_version |-> "v0.18"]

RecipeOld ==
    [id |-> "r0", title |-> "Old way", code |-> "(old)", deprecated |-> TRUE]

RuleA ==
    [id |-> "s1", title |-> "unsafe pointer cast", severity |-> "high",
     scope |-> "ffi", message |-> "M", remediation |-> "R",
     tags |-> <<"ffi", "pointer">>]

FixA ==
    [id |-> "e1", pattern |-> "Unbound identifier: foo", fix |-> "Import the module.",
     wrong_example |-> "(foo 1)", code_example |-> "(import :std/foo)\\n(foo 1)",
     type |-> "Compile"]

FixTest == [id |-> "test-1", pattern |-> "p", fix |-> "f"]

JsonArray(records) == [kind |-> "array", records |-> records]
BadJson(kind) == [kind |-> kind, records |-> <<>>]

GoodCorpus(recipes) ==
    [cookbooks |-> JsonArray(recipes), rules |-> JsonArray(<<RuleA>>),
     fixes |-> JsonArray(<<FixA, FixTest>>)]

\* the ways a required file can be missing or malformed
BadKinds == {"missing", "notjson", "emptyobject"}

\* the required files: all three well-formed, or exactly one of them bad
Corpora ==
    {GoodCorpus(rs) : rs \in {<<RecipeA, RecipeOld>>, <<RecipeA, RecipeB, RecipeA2>>}}
    \cup {[GoodCorpus(<<RecipeA>>) EXCEPT ![f] = BadJson(k)] :
            f \in {"cookbooks", "rules", "fixes"}, k \in BadKinds}

ResourceDoc ==
    File(MCP_DIR \o "/src/resources/idioms.md",
         <<"# Idioms", TextA, "## Table of Contents", TextB, "## Modules", TextC>>)

\* two sections of one document under the same heading
GuideIntro ==
    File(GERBIL_DIR \o "/doc/guide/intro.md",
         <<"# Intro", TextA, "## Setup", TextB, "## Setup", TextC>>)

\* two documents of one directory: a section of the first and a section of the
\* second are filed under the same identifier
GuideA ==
    File(GERBIL_DIR \o "/doc/guide/a.md", <<"# A", "short", "## b.md:T", TextA>>)
GuideAB ==
    File(GERBIL_DIR \o "/doc/guide/a.md:b.md", <<"## T", TextB>>)

ReferenceDoc ==
    File(GERBIL_DIR \o "/doc/reference/std/sort.md",
         <<"# Sorting", "", "## sort", TextA, "### sort!", TextB,
           "## Two words", TextC>>)

TutorialSource ==
    File(GERBIL_DIR \o "/src/tutorial/httpd/server.ss",
         <<"(import :std/net/httpd)", "(def (main . args)", "  (start-http-server!))">>)

TutorialDoc ==
    File(GERBIL_DIR \o "/doc/tutorials/httpd.md",
         <<"# A Web Server", TextA, "## Handlers", TextB>>)

GambitPi ==
    File(GAMBIT_DIR \o "/examples/pi/pi.scm",
         <<"(define (pi-digits n)", "  (compute-digits n 0 1 1))", "(pi-digits 100)">>)

TestFile ==
    File(GERBIL_DIR \o "/src/std/misc/list-test.ss",
         <<"(import :std/test :std/misc/list)", TextA, "(run-tests! list-test)">>)

StdSort ==
    File(GERBIL_DIR \o "/src/std/sort.ss",
         <<"(export sort sort! stable-sort)", "(import :gerbil/gambit)", "(def (sort lst less?)", "  (list-sort less? lst))">>)

StdMiscList ==
    File(GERBIL_DIR \o "/src/std/misc/list/api.ss",
         <<"(export #t)", "(import :std/misc/list-impl)", "(def (flatten tree) ...)">>)

\* the optional files and directories; a file can turn out unreadable in one of
\* the ways of ReadErrors
Trees ==
    {[resources |-> r, guide |-> g, reference |-> ref, tutorial_src |-> t[1],
      tutorial_docs |-> t[2], gambit |-> gm, tests |-> te, std |-> sd] :
        r \in {NoDir, Dir({ResourceDoc})},
        g \in {NoDir, Dir({GuideIntro}), Dir({GuideA, GuideAB})}
              \cup {Dir({GuideIntro, Unreadable(GERBIL_DIR \o "/doc/guide/x.md", e)}) :
                      e \in ReadErrors},
        ref \in {NoDir, Dir({ReferenceDoc})},
        t \in {<<NoDir, NoDir>>, <<Dir({TutorialSource}), Dir({TutorialDoc})>>},
        gm \in {[dirs |-> {}, files |-> {}],
                [dirs |-> {"pi"},
                 files |-> {GambitPi,
                            Unreadable(GAMBIT_DIR \o "/examples/pi/x.scm",
                                       "UnicodeDecodeError")}]},
        te \in {{}, {TestFile}},
        sd \in {{}, {StdSort, StdMiscList}}}

Init ==
    /\ corpus \in Corpora
    /\ tree \in Trees
    /\ pc = "start"
    /\ all_chatml = <<>>
    /\ all_alpaca = <<>>
    /\ pre_chatml = <<>>
    /\ pre_alpaca = <<>>
    /\ output_dir = FALSE
    /\ written = <<>>
    /\ outfiles = [n \in OutputNames |-> <<>>]
    /\ summary = <<>>
    /\ failure = ""
    /\ entries = <<>>
    /\ deduped = <<>>
    /\ twice = <<>>
    /\ calls = 0
    /\ job = [adapter |-> "none"]
    /\ result = Returned(<<>>, <<>>)
    /\ ran = FALSE

Spec == Init /\ [][Next]_vars

(***************************************************************************)
(* deduplicate() on its own: any list of entries, deduplicated once and    *)
(* then once more.                                                         *)
(***************************************************************************)

\* the longest list handed to deduplicate()
MaxEntries == 3

\* an entry without an identifier, whose content hash is also used as an
\* identifier below
IdlessEntry == make_alpaca("Q1", "A", "", "")

DedupIds == {"", "cookbook:r1:howto", "security:s1", ContentHash(IdlessEntry)}

\* entries of both shapes, with and without an identifier, and one without the
\* "source" key
DedupUniverse ==
    {make_alpaca(q, "A", "", id) : q \in {"Q1", "Q2"}, id \in DedupIds}
    \cup {make_chatml(Turns("Q1", "A"), id) : id \in {"", "cookbook:r1:howto"}}
    \cup {[instruction |-> "Q1", input |-> "", output |-> "A"]}

EntryLists ==
    UNION {[1..n -> DedupUniverse] : n \in 0..MaxEntries}

InitDedup ==
    /\ entries \in EntryLists
    /\ deduped = <<>>
    /\ twice = <<>>
    /\ calls = 0
    /\ corpus = GoodCorpus(<<>>)
    /\ tree = CHOOSE t \in Trees : TRUE
    /\ pc = "start"
    /\ all_chatml = <<>>
    /\ all_alpaca = <<>>
    /\ pre_chatml = <<>>
    /\ pre_alpaca = <<>>
    /\ output_dir = FALSE
    /\ written = <<>>
    /\ outfiles = [n \in OutputNames |-> <<>>]
    /\ summary = <<>>
    /\ failure = ""
    /\ job = [adapter |-> "none"]
    /\ result = Returned(<<>>, <<>>)
    /\ ran = FALSE

\* deduped = deduplicate(entries, "source")
FirstCall ==
    /\ calls = 0
    /\ deduped' = deduplicate(entries, "source")
    /\ calls' = 1
    /\ UNCHANGED <<entries, twice, mvars, avars>>

\* twice = deduplicate(deduped, "source")
SecondCall ==
    /\ calls = 1
    /\ twice' = deduplicate(deduped, "source")
    /\ calls' = 2
    /\ UNCHANGED <<entries, deduped, mvars, avars>>

NextDedup == FirstCall \/ SecondCall

SpecDedup == InitDedup /\ [][NextDedup]_vars

(***************************************************************************)
(* One adapter on one input                                                *)
(***************************************************************************)

\* documents are drawn from sequences of at most this many lines
MaxDocLines == 4

\* one recipe of the collection; every optional field can be empty, the code
\* can hold no, one or two WRONG: markers
RecipeUniverse ==
    {[id |-> "r1", title |-> t, tags |-> tg, imports |-> im, code |-> cd,
      notes |-> n, gerbil_version |-> "v0.18", deprecated |-> d] :
        t \in {"Read a file.", "hash lookup", "A gotcha with hashes"},
        tg \in {<<>>, <<"io">>, <<"gotcha", "hash">>},
        im \in {<<>>, <<":std/misc/io">>, <<":std/misc/io", ":std/sugar">>},
        cd \in {"", "(read-file-string \"a.txt\")",
                ";; WRONG: (hash-ref h k)\\n;; RIGHT:\\n(hash-get h k)",
                ";; WRONG: (car h)\\n\\n;; WRONG: (cdr h)\\n\\n(hash-get h k)"},
        n \in {"", "Use hash-get."},
        d \in {FALSE, TRUE}}

\* one rule of the collection
RuleUniverse ==
    {[id |-> "s1", title |-> "unsafe pointer cast", severity |-> "high",
      scope |-> "ffi", message |-> msg, remediation |-> rem, tags |-> tg] :
        msg \in {"", "Casts skip type checks."},
        rem \in {"", "Check the pointer type."},
        tg \in {<<>>, <<"ffi", "pointer">>, <<"a", "b", "c", "d">>}}
    \cup {[id |-> "s2", title |-> "T", severity |-> "low", scope |-> "io",
           message |-> "Casts skip type checks.",
           remediation |-> "Check the pointer type."]}

\* one error fix of the collection
FixUniverse ==
    {[id |-> i, pattern |-> p, fix |-> f, wrong_example |-> w, code_example |-> c,
      type |-> "Compile"] :
        i \in {"e1", "test-1"},
        p \in {"", "Unbound identifier: foo"},
        f \in {"", "Import the module."},
        w \in {"", "(foo 1)"},
        c \in {"", "(import :std/foo)\\n(foo 1)"}}
    \cup {FixA, FixTest, [id |-> "e2"], [id |-> "test-e2", fix |-> "f"]}

\* the lines a document is made of: headings of both ranks, a heading that
\* names a function, a long and a short paragraph
DocLines == {"# Guide", "## Setup", "### sort!", TextA, "short"}

\* the markdown documents of at most MaxDocLines lines
Documents(path) ==
    {File(path, ls) :
        ls \in UNION {[1..n -> DocLines] : n \in 1..MaxDocLines}}

\* a text of more than MarkdownFullLimit characters without a line break
LongText ==
    LET t2 == TextA \o TextA
        t4 == t2 \o t2
        t8 == t4 \o t4
        t16 == t8 \o t8
        t32 == t16 \o t16
        t64 == t32 \o t32
    IN  t64 \o t64

\* a heading line of n characters
LongHeading(n) == "# " \o Prefix(LongText, n - 2)

\* documents at the limits convert_markdown_doc() tests: a heading without a
\* name, a blank first line, only white space, a body one character short of
\* MinSectionBody, and texts of MarkdownFullLimit - 1 and MarkdownFullLimit
\* characters
BoundaryDocuments(path) ==
    {File(path, ls) :
        ls \in {<<"#", "short">>,
                <<"", "# Guide", "short">>,
                <<"  ", "">>,
                <<"# Guide", Prefix(TextA, MinSectionBody - 1)>>,
                <<LongHeading(MarkdownFullLimit - 7), "short">>,
                <<LongHeading(MarkdownFullLimit - 6), "short">>}}

\* tutorial documents around the limits of convert_tutorial(): a headed text of
\* MarkdownFullLimit, of TutorialFullLimit - 1 and of TutorialFullLimit
\* characters
BoundaryTutorials(path) ==
    {File(path, ls) :
        ls \in {<<LongHeading(MarkdownFullLimit - 6), "short">>,
                <<LongHeading(TutorialFullLimit - 7), "short">>,
                <<LongHeading(TutorialFullLimit - 6), "short">>}}

\* the lines a source file is made of: a long line, a blank line, a line
\* with an escape sequence in a string literal
CodeLines == {TextA, "", "(display \"a\\nb\")"}

\* the source files of at most MaxDocLines lines
SourceFiles(path) ==
    {File(path, ls) :
        ls \in UNION {[1..n -> CodeLines] : n \in 1..MaxDocLines}}

\* source files around the limits of convert_std_source_files(): more than
\* StdTruncateAbove characters in two lines, more than StdTruncateAbove
\* characters in StdKeptLines + 1 lines, and StdKeptLines + 1 short lines
BigSourceFiles(path) ==
    {File(path, ls) :
        ls \in {<<LongText, LongText>>,
                [i \in 1..(StdKeptLines + 1) |-> TextA],
                [i \in 1..(StdKeptLines + 1) |-> "(def x 1)"]}}

\* one call of one adapter on one input
Jobs ==
    {[adapter |-> "convert_cookbooks", input |-> r] : r \in RecipeUniverse}
    \cup {[adapter |-> "convert_security_rules", input |-> r] : r \in RuleUniverse}
    \cup {[adapter |-> "convert_error_fixes", input |-> f] : f \in FixUniverse}
    \cup {[adapter |-> a, input |-> d] :
            a \in {"convert_markdown_doc", "extract_api_entries"},
            d \in Documents(GERBIL_DIR \o "/doc/reference/std/sort.md")}
    \cup {[adapter |-> "convert_markdown_doc", input |-> d] :
            d \in BoundaryDocuments(GERBIL_DIR \o "/doc/reference/std/sort.md")}
    \cup {[adapter |-> "convert_tutorial", input |-> d] :
            d \in Documents(GERBIL_DIR \o "/doc/tutorials/httpd.md")}
    \cup {[adapter |-> "convert_tutorial", input |-> d] :
            d \in BoundaryTutorials(GERBIL_DIR \o "/doc/tutorials/httpd.md")}
    \cup {[adapter |-> "convert_source_file", input |-> f, description |-> d] :
            f \in SourceFiles(GERBIL_DIR \o "/src/tutorial/httpd/server.ss"),
            d \in {"", "a simple HTTP server"}}
    \cup {[adapter |-> "convert_source_file", input |-> f, description |-> ""] :
            f \in BigSourceFiles(GERBIL_DIR \o "/src/tutorial/httpd/server.ss")}
    \cup {[adapter |-> "convert_std_source_files", input |-> f, description |-> ""] :
            f \in BigSourceFiles(GERBIL_DIR \o "/src/std/sort.ss")}
    \cup {[adapter |-> "convert_gambit_examples", input |-> f, description |-> ""] :
            f \in SourceFiles(GAMBIT_DIR \o "/examples/pi/pi.scm")}
    \cup {[adapter |-> "convert_test_files", input |-> f, description |-> ""] :
            f \in SourceFiles(GERBIL_DIR \o "/src/std/misc/list-test.ss")}
    \cup {[adapter |-> "convert_std_source_files", input |-> f, description |-> ""] :
            f \in SourceFiles(GERBIL_DIR \o "/src/std/sort.ss")}

InitAdapt ==
    /\ job \in Jobs
    /\ result = Returned(<<>>, <<>>)
    /\ ran = FALSE
    /\ entries = <<>>
    /\ deduped = <<>>
    /\ twice = <<>>
    /\ calls = 0
    /\ corpus = GoodCorpus(<<>>)
    /\ tree = CHOOSE t \in Trees : TRUE
    /\ pc = "start"
    /\ all_chatml = <<>>
    /\ all_alpaca = <<>>
    /\ pre_chatml = <<>>
    /\ pre_alpaca = <<>>
    /\ output_dir = FALSE
    /\ written = <<>>
    /\ outfiles = [n \in OutputNames |-> <<>>]
    /\ summary = <<>>
    /\ failure = ""

\* the call returns: result holds what the adapter returned or raised
Return(r) ==
    /\ ~ran
    /\ result' = r
    /\ ran' = TRUE
    /\ UNCHANGED <<job, dvars, mvars>>

\* convert_cookbooks([recipe])
CallConvertCookbooks ==
    job.adapter = "convert_cookbooks" /\ Return(convert_cookbooks(<<job.input>>))

\* convert_security_rules([rule])
CallConvertSecurityRules ==
    job.adapter = "convert_security_rules"
        /\ Return(convert_security_rules(<<job.input>>))

\* convert_error_fixes([fix])
CallConvertErrorFixes ==
    job.adapter = "convert_error_fixes" /\ Return(convert_error_fixes(<<job.input>>))

\* convert_markdown_doc(filepath)
CallConvertMarkdownDoc ==
    job.adapter = "convert_markdown_doc" /\ Return(convert_markdown_doc(job.input))

\* extract_api_entries(filepath)
CallExtractApiEntries ==
    job.adapter = "extract_api_entries" /\ Return(extract_api_entries(job.input))

\* convert_tutorial(filepath)
CallConvertTutorial ==
    job.adapter = "convert_tutorial" /\ Return(convert_tutorial(job.input))

\* convert_source_file(filepath, description)
CallConvertSourceFile ==
    job.adapter = "convert_source_file"
        /\ Return(convert_source_file(job.input, job.description))

\* convert_gambit_examples() with one file in examples/pi
CallConvertGambitExamples ==
    job.adapter = "convert_gambit_examples"
        /\ Return(convert_gambit_examples([dirs |-> {"pi"}, files |-> {job.input}],
                                          <<job.input>>))

\* convert_test_files() with one test file under src/std
CallConvertTestFiles ==
    job.adapter = "convert_test_files" /\ Return(convert_test_files(<<job.input>>))

\* convert_std_source_files() with one of the key modules present
CallConvertStdSourceFiles ==
    job.adapter = "convert_std_source_files"
        /\ Return(convert_std_source_files({job.input}))

NextAdapt ==
    \/ CallConvertCookbooks
    \/ CallConvertSecurityRules
    \/ CallConvertErrorFixes
    \/ CallConvertMarkdownDoc
    \/ CallExtractApiEntries
    \/ CallConvertTutorial
    \/ CallConvertSourceFile
    \/ CallConvertGambitExamples
    \/ CallConvertTestFiles
    \/ CallConvertStdSourceFiles

SpecAdapt == InitAdapt /\ [][NextAdapt]_vars

(***************************************************************************)
(* normalize_code() on its own                                             *)
(***************************************************************************)

\* the longest text given to normalize_code()
MaxTextLen == 5

\* the characters of a text: the backslash, the characters that follow it in
\* an escape sequence, a newline, a blank and a letter
TextChars == {"\\", "n", "\"", "\n", " ", "a"}

\* the texts of at most MaxTextLen characters
Texts ==
    {Join(cs, "") : cs \in UNION {[1..n -> TextChars] : n \in 1..MaxTextLen}}

InitNormalize ==
    /\ job \in {[adapter |-> "normalize_code", input |-> t] : t \in Texts}
    /\ result = ""
    /\ ran = FALSE
    /\ entries = <<>>
    /\ deduped = <<>>
    /\ twice = <<>>
    /\ calls = 0
    /\ corpus = GoodCorpus(<<>>)
    /\ tree = CHOOSE t \in Trees : TRUE
    /\ pc = "start"
    /\ all_chatml = <<>>
    /\ all_alpaca = <<>>
    /\ pre_chatml = <<>>
    /\ pre_alpaca = <<>>
    /\ output_dir = FALSE
    /\ written = <<>>
    /\ outfiles = [n \in OutputNames |-> <<>>]
    /\ summary = <<>>
    /\ failure = ""

\* normalize_code(code) returns: result holds the text it returned
CallNormalizeCode ==
    job.adapter = "normalize_code" /\ Return(normalize_code(job.input))

NextNormalize == CallNormalizeCode

SpecNormalize == InitNormalize /\ [][NextNormalize]_vars

(***************************************************************************)
(* Claims about deduplicate()                                              *)
(***************************************************************************)

\* the identifier of an entry ("" when it has none)
SourceOf(e) == Get(e, "source", "")

\* no two entries of es carry the same non-empty identifier
NoSharedId(es) ==
    \A i, j \in 1..Len(es) :
        (i < j /\ SourceOf(es[i]) /= "") => SourceOf(es[i]) /= SourceOf(es[j])

\* the key an entry is deduplicated by: its identifier, else its content hash
DedupKey(e) == IF SourceOf(e) /= "" THEN SourceOf(e) ELSE ContentHash(e)

\* the positions of es whose key occurs at no earlier position
FirstPositions(es) ==
    {i \in 1..Len(es) : \A j \in 1..(i - 1) : DedupKey(es[j]) /= DedupKey(es[i])}

\* the entries of es at the positions in I, in the order of es
SubsequenceAt(es, I) ==
    LET F[i \in 0..Len(es)] ==
            IF i = 0 THEN <<>>
            ELSE IF i \in I THEN Append(F[i - 1], es[i]) ELSE F[i - 1]
    IN  F[Len(es)]

\* C1: whatever list deduplicate() is given, the list it returns holds no two
\* entries with the same non-empty identifier.
C1_DedupedIdsDistinct ==
    /\ calls >= 1 => NoSharedId(deduped)
    /\ calls >= 2 => NoSharedId(twice)

\* C1 witness: a list in which an identifier occurs twice has been deduplicated.
C1_Witness ==
    calls >= 1 /\ ~NoSharedId(entries) /\ Len(deduped) < Len(entries)

\* C2: deduplicate() returns exactly the first occurrences: the entry at
\* position i is kept iff no earlier entry has its dedup key, and the kept
\* entries keep their order.
C2_FirstOccurrencesInOrder ==
    calls >= 1 => deduped = SubsequenceAt(entries, FirstPositions(entries))

\* C2 witness: an entry was dropped and a later entry was kept after an
\* earlier kept one.
C2_Witness ==
    /\ calls >= 1
    /\ Len(deduped) >= 2
    /\ \E i, j \in 1..Len(entries) :
           i < j /\ i \notin FirstPositions(entries) /\ j \in FirstPositions(entries)

\* C3: deduplicating an already deduplicated list changes nothing.
C3_Idempotent ==
    calls = 2 => twice = deduped

\* C3 witness: the first call dropped something and left at least two entries
\* for the second call.
C3_Witness ==
    calls = 2 /\ Len(deduped) < Len(entries) /\ Len(deduped) >= 2

\* the positions of es whose entry has no identifier and differs from every
\* earlier entry without identifier
FirstIdlessPositions(es) ==
    {i \in 1..Len(es) :
        /\ SourceOf(es[i]) = ""
        /\ \A j \in 1..(i - 1) : SourceOf(es[j]) = "" => es[j] /= es[i]}

\* the entries of es without identifier, in order
IdlessOf(es) ==
    LET Idless(e) == SourceOf(e) = "" IN SelectSeq(es, Idless)

\* C20: entries without identifier are deduplicated by content: of the entries
\* without identifier, deduplicate() keeps the first of every group of
\* identical ones, keeps every one that differs from all earlier ones, and
\* drops the others.
C20_IdlessDeduplicatedByContent ==
    calls >= 1 =>
        IdlessOf(deduped) = SubsequenceAt(entries, FirstIdlessPositions(entries))

\* no earlier entry of es has the key of es[i] and is of its kind: the same
\* identifier for an entry with an identifier, the same content for an entry
\* without
FirstOfItsKind(es, i) ==
    IF SourceOf(es[i]) /= ""
    THEN \A j \in 1..(i - 1) : SourceOf(es[j]) /= SourceOf(es[i])
    ELSE \A j \in 1..(i - 1) : SourceOf(es[j]) = "" => es[j] /= es[i]

\* C27: deduplicate() drops an entry with an identifier only if an earlier
\* entry carried that identifier, and an entry without identifier only if an
\* earlier entry without identifier had the same content: identifiers and
\* content hashes do not interfere.
C27_KeysDoNotInterfere ==
    calls >= 1 =>
        \A i \in 1..Len(entries) :
            FirstOfItsKind(entries, i) =>
                \E k \in 1..Len(deduped) : deduped[k] = entries[i]

(***************************************************************************)
(* Claims about main()                                                     *)
(***************************************************************************)

\* main() is past its two calls of deduplicate()
Deduplicated == pc \in {"write_chatml", "write_alpaca", "write_json", "stats", "done"}

\* the streams as they were before deduplication
PreChatml == IF Deduplicated THEN pre_chatml ELSE all_chatml
PreAlpaca == IF Deduplicated THEN pre_alpaca ELSE all_alpaca

\* C4: once main() has deduplicated the two streams they have the same length,
\* carry the same identifier at every position, and neither holds an
\* identifier twice.
C4_StreamsCorrespondAfterDedup ==
    Deduplicated =>
        /\ Len(all_chatml) = Len(all_alpaca)
        /\ \A i \in 1..Len(all_chatml) : SourceOf(all_chatml[i]) = SourceOf(all_alpaca[i])
        /\ NoSharedId(all_chatml)
        /\ NoSharedId(all_alpaca)

\* C4 witness: deduplication dropped entries of a run and left several.
C4_Witness ==
    /\ Deduplicated
    /\ Len(all_chatml) < Len(pre_chatml)
    /\ Len(all_alpaca) < Len(pre_alpaca)
    /\ Len(all_chatml) >= 2

\* the orders in which one run can enumerate each directory it scans
ListingChoices(t) ==
    [resources : Orders(t.resources.files), guide : Orders(t.guide.files),
     reference : Orders(t.reference.files),
     tutorial_src : Orders(t.tutorial_src.files),
     tutorial_docs : Orders(t.tutorial_docs.files),
     gambit : Orders(t.gambit.files), tests : Orders(t.tests)]

\* what the ten sources return, in main()'s order, when the scans enumerate in
\* the orders o
SourceResults(c, t, o) ==
    << LoadAndConvert(c.cookbooks,
                      convert_cookbooks(LoadJson(c.cookbooks).items)),
       LoadAndConvert(c.rules,
                      convert_security_rules(LoadJson(c.rules).items)),
       LoadAndConvert(c.fixes,
                      convert_error_fixes(LoadJson(c.fixes).items)),
       convert_resource_mds(t.resources, o.resources),
       convert_guide_docs(t.guide, o.guide),
       convert_all_reference_docs(t.reference, o.reference),
       convert_all_tutorials(t.tutorial_src, o.tutorial_src,
                             t.tutorial_docs, o.tutorial_docs),
       convert_gambit_examples(t.gambit, o.gambit),
       convert_test_files(o.tests),
       convert_std_source_files(t.std) >>

\* the two deduplicated streams of a run of main() that enumerates in the
\* orders o, or the exception that ends it
main_streams(c, t, o) ==
    LET rs == SourceResults(c, t, o)
        F[i \in 0..Len(rs)] ==
            IF i = 0 THEN Returned(<<>>, <<>>)
            ELSE IF F[i - 1].exc /= "" THEN F[i - 1]
            ELSE IF rs[i].exc /= "" THEN Raised(rs[i].exc)
            ELSE Extend(F[i - 1], rs[i])
        all == F[Len(rs)]
    IN  IF all.exc /= "" THEN all
        ELSE Returned(deduplicate(all.chatml, "source"),
                      deduplicate(all.alpaca, "source"))

\* the question and the answer of an entry of either stream
QuestionOf(e) ==
    IF "conversations" \in DOMAIN e THEN e.conversations[2].content ELSE e.instruction
AnswerOf(e) ==
    IF "conversations" \in DOMAIN e THEN e.conversations[3].content ELSE e.output

\* the identifiers of a stream, each with the content attached to it
ContentById(es) ==
    {<<SourceOf(es[i]), QuestionOf(es[i]), AnswerOf(es[i])>> : i \in 1..Len(es)}

\* C5: a finished run and any run over the same inputs that enumerates the
\* directories in other orders end with the same identifiers in each
\* deduplicated stream, and with the same question and answer under each
\* identifier.
C5_EnumerationOrderIrrelevant ==
    pc = "done" =>
        \A o \in ListingChoices(tree) :
            LET other == main_streams(corpus, tree, o) IN
            /\ other.exc = ""
            /\ ContentById(other.chatml) = ContentById(all_chatml)
            /\ ContentById(other.alpaca) = ContentById(all_alpaca)

\* a required file that is missing or is not an array of records
BadCorpusFile ==
    \E f \in {"cookbooks", "rules", "fixes"} : corpus[f].kind /= "array"

\* C6: when one of the three required files is missing or malformed, main()
\* never gets to write an output file and never finishes normally.
C6_BadCorpusFileAbortsBeforeOutput ==
    BadCorpusFile =>
        /\ written = <<>>
        /\ pc \notin {"write_alpaca", "write_json", "stats", "done"}

\* C7: with the three required files well-formed, no missing or unreadable
\* optional file or directory makes an adapter raise: main() is never ended by
\* an exception.
C7_UnreadableOptionalInputNeverRaises ==
    ~BadCorpusFile => (pc /= "aborted" /\ failure = "")

\* the identifier-prefix category of each entry of a stream
CategoriesOf(es) == [i \in 1..Len(es) |-> Category(SourceOf(es[i]))]

\* how many positions of the sequence cats hold cat
CountIn(cats, cat) == Cardinality({i \in 1..Len(cats) : cats[i] = cat})

\* C9: before deduplication the two streams main() accumulates hold the same
\* number of entries in every identifier-prefix category.
C9_CategoryCountsAgreeBeforeDedup ==
    LET conversational == CategoriesOf(PreChatml)
        flat == CategoriesOf(PreAlpaca)
    IN  \A cat \in {conversational[i] : i \in 1..Len(conversational)}
                   \cup {flat[i] : i \in 1..Len(flat)} :
            CountIn(conversational, cat) = CountIn(flat, cat)

\* C9 witness: main() is about to deduplicate streams that hold several
\* categories, one of them with several entries.
C9_Witness ==
    LET cats == CategoriesOf(all_chatml) IN
    /\ pc = "dedup"
    /\ Cardinality({cats[i] : i \in 1..Len(cats)}) >= 3
    /\ \E i \in 1..Len(cats) : CountIn(cats, cats[i]) >= 2

\* the content of the turn of a conversational entry with the given role
TurnContent(e, role) ==
    LET T == {k \in 1..Len(e.conversations) : e.conversations[k].role = role}
    IN  e.conversations[CHOOSE k \in T : TRUE].content

\* C10: at every position of the streams before deduplication the flat entry
\* has the identifier of the conversational entry, the user turn's content as
\* its instruction, the assistant turn's content as its output, and an empty
\* input.
C10_FlatEquivalentToConversational ==
    /\ Len(PreChatml) = Len(PreAlpaca)
    /\ \A i \in 1..Len(PreChatml) :
           /\ PreAlpaca[i].source = PreChatml[i].source
           /\ PreAlpaca[i].instruction = TurnContent(PreChatml[i], "user")
           /\ PreAlpaca[i].output = TurnContent(PreChatml[i], "assistant")
           /\ PreAlpaca[i].input = ""

\* C10 witness: main() has accumulated entries of several sources and is about
\* to deduplicate them.
C10_Witness ==
    /\ pc = "dedup"
    /\ Len(all_chatml) >= 10
    /\ Len(all_alpaca) >= 10

\* the roles of the turns of a conversational entry, in order
RolesOf(e) == [k \in 1..Len(e.conversations) |-> e.conversations[k].role]

\* C11: every conversational entry an adapter has emitted has exactly three
\* turns, in this order: the fixed system persona, one user turn, one
\* assistant turn.
C11_ThreeTurnsPersonaFirst ==
    \A i \in 1..Len(PreChatml) :
        /\ RolesOf(PreChatml[i]) = <<"system", "user", "assistant">>
        /\ PreChatml[i].conversations[1].content = SYSTEM_PROMPT

\* C11 witness: every kind of source has contributed conversational entries,
\* whole-document entries among them.
C11_Witness ==
    LET cats == CategoriesOf(all_chatml) IN
    /\ pc = "dedup"
    /\ Cardinality({cats[i] : i \in 1..Len(cats)}) = 10
    /\ \E i \in 1..Len(all_chatml) :
           all_chatml[i].source = "tutorial:doc/tutorials/httpd.md:full"


\* the sum of the counts of the first k lines of the summary
SummaryTotal ==
    LET F[k \in 0..Len(summary)] ==
            IF k = 0 THEN 0 ELSE F[k - 1] + summary[k].count
    IN  F[Len(summary)]

\* the summary has one line per category of the stream es, with the number of
\* entries of es in that category
SummaryCounts(es) ==
    LET cats == CategoriesOf(es) IN
    /\ {summary[k].cat : k \in 1..Len(summary)} = {cats[i] : i \in 1..Len(cats)}
    /\ \A k, m \in 1..Len(summary) : summary[k].cat = summary[m].cat => k = m
    /\ \A k \in 1..Len(summary) : summary[k].count = CountIn(cats, summary[k].cat)

\* C21: the summary main() prints has one line per identifier prefix, with the
\* number of deduplicated entries of that prefix, in non-increasing order of
\* count; the counts sum to the length of the deduplicated stream, for the
\* conversational and the flat stream alike.
C21_SummaryCountsSortedAndComplete ==
    pc = "done" =>
        /\ SummaryCounts(all_chatml) /\ SummaryCounts(all_alpaca)
        /\ \A k \in 1..(Len(summary) - 1) : summary[k].count >= summary[k + 1].count
        /\ SummaryTotal = Len(all_chatml) /\ SummaryTotal = Len(all_alpaca)

\* C21 witness: a run ended with a summary of at least three categories whose
\* order is not the order in which the categories were first met.
C21_Witness ==
    /\ pc = "done"
    /\ Len(summary) >= 3
    /\ summary /= SourceCounts(all_chatml)
    /\ Len(pre_chatml) > Len(all_chatml)

\* the steps of main() in the order of the claim: the ten adapters (recipes,
\* security rules, error fixes, resource markdown, guide docs, reference docs,
\* tutorials, Gambit examples, test files, std source), then deduplication
StageOrder ==
    <<"cookbooks", "security", "errorfixes", "resources", "guide", "reference",
      "tutorials", "gambit", "tests", "std", "dedup">>

\* the identifier prefixes of the entries each adapter emits
StageCategories ==
    [stage \in {StageOrder[k] : k \in 1..10} |->
        CASE stage = "cookbooks" -> {"cookbook"}
          [] stage = "security" -> {"security"}
          [] stage = "errorfixes" -> {"errorfix"}
          [] stage = "resources" -> {"doc"}
          [] stage = "guide" -> {"doc"}
          [] stage = "reference" -> {"doc", "api"}
          [] stage = "tutorials" -> {"source", "tutorial", "doc"}
          [] stage = "gambit" -> {"gambit"}
          [] stage = "tests" -> {"test"}
          [] stage = "std" -> {"std-source"}]

\* the list a is the beginning of the list b
IsPrefix(a, b) == Len(a) <= Len(b) /\ SubSeq(b, 1, Len(a)) = a

\* b is a followed by entries whose identifier prefixes are all in cats
ExtendedBy(a, b, cats) ==
    /\ IsPrefix(a, b)
    /\ \A i \in (Len(a) + 1)..Len(b) : Category(SourceOf(b[i])) \in cats

\* C22: main() runs the ten adapters in one fixed order; each adapter's
\* entries are put behind the entries of the adapters before it, in both
\* streams; deduplication then keeps, of the concatenation, the first entry
\* of every identifier, in order.
C22_FixedOrderThenFirstOccurrences ==
    [][/\ \A k \in 1..10 :
              pc = StageOrder[k] =>
                  /\ pc' \in {StageOrder[k + 1], "aborted"}
                  /\ ExtendedBy(all_chatml, all_chatml', StageCategories[pc])
                  /\ ExtendedBy(all_alpaca, all_alpaca', StageCategories[pc])
       /\ pc = "dedup" =>
              /\ all_chatml' = SubsequenceAt(all_chatml, FirstPositions(all_chatml))
              /\ all_alpaca' = SubsequenceAt(all_alpaca, FirstPositions(all_alpaca))]_vars

\* C22 witness: all ten adapters have contributed, and deduplication has
\* dropped an entry.
C22_Witness ==
    /\ pc = "write_chatml"
    /\ Len(all_chatml) < Len(pre_chatml)
    /\ {Category(SourceOf(pre_chatml[i])) : i \in 1..Len(pre_chatml)}
           = UNION {StageCategories[StageOrder[k]] : k \in 1..10}

\* the identifier prefixes of the ten adapters
IdentifierPrefixes ==
    {"cookbook", "security", "errorfix", "doc", "api", "source", "tutorial",
     "gambit", "test", "std-source"}

\* every entry of es has a "source" that is not empty and starts with one of
\* the ten prefixes
AllIdentified(es) ==
    \A i \in 1..Len(es) :
        /\ "source" \in DOMAIN es[i]
        /\ es[i].source /= ""
        /\ Category(es[i].source) \in IdentifierPrefixes

\* the positions of es whose identifier occurs at no earlier position
FirstIdPositions(es) ==
    {i \in 1..Len(es) : \A j \in 1..(i - 1) : SourceOf(es[j]) /= SourceOf(es[i])}

\* C26: every entry that reaches deduplication in main(), in either stream,
\* has a non-empty identifier with one of the ten prefixes, and what
\* deduplication returns is the first entry of every identifier: the
\* content-hash branch is never taken.
C26_PipelineEntriesIdentified ==
    /\ pc = "dedup" => AllIdentified(all_chatml) /\ AllIdentified(all_alpaca)
    /\ pc = "write_chatml" =>
           /\ all_chatml = SubsequenceAt(pre_chatml, FirstIdPositions(pre_chatml))
           /\ all_alpaca = SubsequenceAt(pre_alpaca, FirstIdPositions(pre_alpaca))

\* C26 witness: the flat stream reaches deduplication with entries of all ten
\* prefixes.
C26_Witness ==
    /\ pc = "dedup"
    /\ {Category(SourceOf(all_alpaca[i])) : i \in 1..Len(all_alpaca)} = IdentifierPrefixes

\* the output files in the order main() writes them
WriteOrder ==
    <<"training_data.jsonl", "training_data_alpaca.jsonl", "training_data_alpaca.json">>

\* C28: main() opens no output file before all ten adapters have returned and
\* both streams are deduplicated; it writes the conversational JSONL, the flat
\* JSONL and the flat JSON array in that order, each holding its deduplicated
\* stream, so that the JSON array holds the entries of the flat JSONL file in
\* the same order.
C28_FilesWrittenAfterDedupInOrder ==
    /\ IsPrefix(written, WriteOrder)
    /\ \A n \in OutputNames :
           (\A k \in 1..Len(written) : written[k] /= n) => outfiles[n] = <<>>
    /\ written /= <<>> =>
           /\ pc \in {"write_alpaca", "write_json", "stats", "done"}
           /\ all_chatml = deduplicate(pre_chatml, "source")
           /\ all_alpaca = deduplicate(pre_alpaca, "source")
           /\ outfiles["training_data.jsonl"] = all_chatml
    /\ Len(written) >= 2 => outfiles["training_data_alpaca.jsonl"] = all_alpaca
    /\ Len(written) = 3 =>
           outfiles["training_data_alpaca.json"] = outfiles["training_data_alpaca.jsonl"]

\* C28 witness: a run in which deduplication dropped flat entries has written
\* its three files.
C28_Witness ==
    /\ pc = "done"
    /\ written = WriteOrder
    /\ Len(all_alpaca) < Len(pre_alpaca)
    /\ Len(outfiles["training_data_alpaca.json"]) >= 2

(***************************************************************************)
(* Claims about the adapters                                               *)
(***************************************************************************)

\* C8: the entries one adapter call emits for one input (one recipe, one rule,
\* one error fix, one markdown, API or tutorial document) carry pairwise
\* distinct identifiers.
C8_IdsDistinctWithinOneCall ==
    ran => (NoSharedId(result.chatml) /\ NoSharedId(result.alpaca))

\* the entries of both streams that the call returned
Emitted == [i \in 1..(Len(result.chatml) + Len(result.alpaca)) |->
               IF i <= Len(result.chatml) THEN result.chatml[i]
               ELSE result.alpaca[i - Len(result.chatml)]]

\* C12: every entry an adapter call emits, in either stream, has a non-empty
\* question and a non-empty answer, also when the optional fields of the input
\* record are empty.
C12_QuestionAndAnswerNonEmpty ==
    ran => \A i \in 1..Len(Emitted) :
               QuestionOf(Emitted[i]) /= "" /\ AnswerOf(Emitted[i]) /= ""

\* C12 witness: a call on a record whose optional fields are all empty (a
\* recipe without code, notes and tags, or an error fix without pattern, fix
\* and examples) produced entries.
C12_Witness ==
    /\ ran
    /\ Len(result.chatml) >= 1
    /\ \/ /\ job.adapter = "convert_cookbooks"
          /\ job.input.code = "" /\ job.input.notes = "" /\ job.input.tags = <<>>
       \/ /\ job.adapter = "convert_error_fixes"
          /\ Get(job.input, "pattern", "") = "" /\ Get(job.input, "fix", "") = ""
          /\ Get(job.input, "wrong_example", "") = ""
          /\ Get(job.input, "code_example", "") = ""

\* the identifiers of a stream, in order
IdsOf(es) == [i \in 1..Len(es) |-> SourceOf(es[i])]

\* how many entries of es carry the identifier id
CountId(es, id) == Cardinality({i \in 1..Len(es) : SourceOf(es[i]) = id})

\* the call was convert_cookbooks() on one recipe that is not deprecated
RecipeConverted ==
    ran /\ job.adapter = "convert_cookbooks" /\ ~Get(job.input, "deprecated", FALSE)

\* the recipe is tagged, respectively titled, as a gotcha
TaggedGotcha == InList("gotcha", Get(job.input, "tags", <<>>))
TitledGotcha == Contains(Upper(job.input.title), "GOTCHA")

\* the identifier of a variant of the recipe
VariantId(variant) == "cookbook:" \o job.input.id \o ":" \o variant

\* what C13 says of the imports variant in the stream es: one imports entry
\* beside the howto and example entries iff the import list is non-empty, and
\* no import sentence in the howto answer of a recipe without imports
ImportsVariantRule(es) ==
    /\ CountId(es, VariantId("howto")) = 1
    /\ CountId(es, VariantId("example")) = 1
    /\ Get(job.input, "imports", <<>>) /= <<>> => CountId(es, VariantId("imports")) = 1
    /\ Get(job.input, "imports", <<>>) = <<>> =>
           /\ CountId(es, VariantId("imports")) = 0
           /\ \A i \in 1..Len(es) :
                  SourceOf(es[i]) = VariantId("howto")
                      => ~Contains(AnswerOf(es[i]), "You'll need to import")

\* the stream es holds exactly the howto, example and imports entries
ExactlyThreeVariants(es) ==
    IdsOf(es) = <<VariantId("howto"), VariantId("example"), VariantId("imports")>>

\* C13 as stated: the imports variant is emitted iff the import list is
\* non-empty, a recipe without imports has no import sentence in its howto
\* answer, and a recipe with one import and no gotcha tag yields exactly the
\* identifiers howto, example, imports.
C13_ImportsVariantNoGotchaTag ==
    RecipeConverted =>
        /\ ImportsVariantRule(result.chatml) /\ ImportsVariantRule(result.alpaca)
        /\ (Len(job.input.imports) = 1 /\ ~TaggedGotcha) =>
               (ExactlyThreeVariants(result.chatml) /\ ExactlyThreeVariants(result.alpaca))

\* C13 amended: as above, but the three identifiers are all there is only for
\* a recipe with one import that is neither tagged nor titled as a gotcha.
C13_ImportsVariant ==
    RecipeConverted =>
        /\ ImportsVariantRule(result.chatml) /\ ImportsVariantRule(result.alpaca)
        /\ (Len(job.input.imports) = 1 /\ ~TaggedGotcha /\ ~TitledGotcha) =>
               (ExactlyThreeVariants(result.chatml) /\ ExactlyThreeVariants(result.alpaca))

\* C13 witness: a recipe with one import, no gotcha tag and no gotcha title,
\* whose code holds a WRONG: marker, was converted into three entries.
C13_Witness ==
    /\ RecipeConverted
    /\ Len(job.input.imports) = 1
    /\ ~TaggedGotcha /\ ~TitledGotcha
    /\ WrongMatch(normalize_code(job.input.code)).ok
    /\ Len(result.chatml) = 3

\* the text holds a ";;" comment whose first word, after optional white
\* space, is WRONG (the marker of a wrong snippet)
HasWrongMarker(code) ==
    \E j \in 3..Len(code) :
        /\ Slice(code, j, j + 4) = "WRONG"
        /\ \E i \in 1..(j - 2) :
               /\ Slice(code, i, i + 1) = ";;"
               /\ \A k \in (i + 2)..(j - 1) : CharAt(code, k) \in Whitespace

\* how many gotcha entries the recipe must yield
GotchaExpected ==
    IF (TaggedGotcha \/ TitledGotcha)
       /\ HasWrongMarker(normalize_code(job.input.code))
    THEN 1 ELSE 0

\* C14: a non-deprecated recipe yields exactly one cookbook:<id>:gotcha entry
\* if it is tagged or titled as a gotcha and its normalized code holds a
\* WRONG marker, and none otherwise, however many markers the code holds.
C14_OneGotchaIffMarked ==
    RecipeConverted =>
        /\ CountId(result.chatml, VariantId("gotcha")) = GotchaExpected
        /\ CountId(result.alpaca, VariantId("gotcha")) = GotchaExpected

\* C14 witness: a recipe tagged as a gotcha whose code holds two WRONG markers
\* was converted, and has one gotcha entry.
C14_Witness ==
    /\ RecipeConverted
    /\ TaggedGotcha
    /\ Contains(job.input.code, "(car h)") /\ Contains(job.input.code, "(cdr h)")
    /\ CountId(result.chatml, VariantId("gotcha")) = 1

\* the call was convert_error_fixes() on one error fix
FixConverted == ran /\ job.adapter = "convert_error_fixes"

\* C15: an error fix whose id starts with "test-" yields no entry in either
\* stream; every other error fix yields exactly one entry, errorfix:<id>, in
\* each stream.
C15_TestFixesSkipped ==
    FixConverted =>
        IF StartsWith(job.input.id, "test-")
        THEN result.chatml = <<>> /\ result.alpaca = <<>>
        ELSE /\ IdsOf(result.chatml) = <<"errorfix:" \o job.input.id>>
             /\ IdsOf(result.alpaca) = <<"errorfix:" \o job.input.id>>

\* C15 witness: a test-only fix with a pattern and a fix text was converted
\* into nothing.
C15_Witness ==
    /\ FixConverted
    /\ StartsWith(job.input.id, "test-")
    /\ Get(job.input, "pattern", "") /= "" /\ Get(job.input, "fix", "") /= ""
    /\ result.exc = "" /\ result.chatml = <<>>

\* the call was convert_security_rules() on one rule
RuleConverted == ran /\ job.adapter = "convert_security_rules"

\* the stream es holds the two entries of the rule, in order, and both
\* answers contain the rule's remediation text
TwoRuleEntries(es) ==
    /\ IdsOf(es) = <<"security:" \o job.input.id,
                     "security:" \o job.input.id \o ":safe">>
    /\ \A i \in 1..Len(es) : Contains(AnswerOf(es[i]), job.input.remediation)

\* C16: a security rule yields exactly two entries, security:<id> and
\* security:<id>:safe, in each stream, and the answer of both contains the
\* remediation text.
C16_TwoEntriesPerRule ==
    RuleConverted => TwoRuleEntries(result.chatml) /\ TwoRuleEntries(result.alpaca)

\* C16 witness: a rule with a remediation text was converted into two entries.
C16_Witness ==
    /\ RuleConverted
    /\ job.input.remediation = "Check the pointer type."
    /\ Len(result.chatml) = 2 /\ Len(result.alpaca) = 2

\* the call was convert_markdown_doc() on a document it could read
MarkdownConverted ==
    ran /\ job.adapter = "convert_markdown_doc" /\ job.input.read = "ok"

\* every section of the document has a body under MinSectionBody characters
AllSectionsShort ==
    LET sections == split_markdown_sections(job.input.lines)
    IN  \A i \in 1..Len(sections) : Len(sections[i].body) < MinSectionBody

\* the document is under MarkdownFullLimit characters
UnderFullLimit == Len(ContentOf(job.input)) < MarkdownFullLimit

\* the first line of the document is a heading
FirstLineIsHeading == StartsWith(job.input.lines[1], "#")

\* the first line of the trimmed text is a heading with a name
FirstTextLineIsNamedHeading ==
    LET first == FirstLine(ContentOf(job.input))
    IN  StartsWith(first, "#") /\ Strip(LStripChar(first, "#")) /= ""

\* the stream es holds the whole-document entry and nothing else
OnlyWholeDocument(es) ==
    IdsOf(es) = <<"doc:" \o DocRelPath(job.input.path) \o ":full">>

\* C17 as stated: a document whose sections all have bodies under 100
\* characters yields no section entry, and exactly one whole-document entry if
\* it is under 8000 characters and its first line is a heading, else nothing.
C17_ShortSectionsFirstLineHeading ==
    (MarkdownConverted /\ AllSectionsShort) =>
        IF UnderFullLimit /\ FirstLineIsHeading
        THEN OnlyWholeDocument(result.chatml) /\ OnlyWholeDocument(result.alpaca)
        ELSE result.chatml = <<>> /\ result.alpaca = <<>>

\* C17 amended: the whole-document entry is emitted iff the document is under
\* 8000 characters and the first line of its trimmed text is a heading with a
\* non-empty name.
C17_ShortSections ==
    (MarkdownConverted /\ AllSectionsShort) =>
        IF UnderFullLimit /\ FirstTextLineIsNamedHeading
        THEN OnlyWholeDocument(result.chatml) /\ OnlyWholeDocument(result.alpaca)
        ELSE result.chatml = <<>> /\ result.alpaca = <<>>

\* C17 witness: a headed document of 8000 characters with one short section
\* was converted into nothing.
C17_Witness ==
    /\ MarkdownConverted /\ AllSectionsShort
    /\ FirstTextLineIsNamedHeading
    /\ Len(ContentOf(job.input)) = MarkdownFullLimit
    /\ result.chatml = <<>>

\* the adapters that embed the text of a source file in their answer
FileAdapters ==
    {"convert_source_file", "convert_gambit_examples", "convert_test_files",
     "convert_std_source_files"}

\* the answer of e holds a code block with the normalized fragment
EmbedsNormalized(e, fragment) ==
    Contains(AnswerOf(e), SchemeBlock(normalize_code(fragment)))

\* every entry of es whose identifier is in ids embeds the normalized fragment
AllEmbedNormalized(es, ids, fragment) ==
    \A i \in 1..Len(es) :
        SourceOf(es[i]) \in ids => EmbedsNormalized(es[i], fragment)

\* the code fragments of the recipe in the stream es went through
\* normalize_code(): the code of the howto and example entries, and the
\* snippet of the gotcha entry, which is cut out of the normalized code
RecipeCodeNormalized(es) ==
    /\ AllEmbedNormalized(es, {VariantId("howto"), VariantId("example")},
                          job.input.code)
    /\ \A i \in 1..Len(es) :
           SourceOf(es[i]) = VariantId("gotcha") =>
               Contains(AnswerOf(es[i]),
                        SchemeBlock(Strip(WrongMatch(normalize_code(job.input.code)).group0)))

\* the examples of the error fix in the stream es went through normalize_code()
FixExamplesNormalized(es) ==
    \A i \in 1..Len(es) :
        /\ Get(job.input, "wrong_example", "") /= ""
               => EmbedsNormalized(es[i], job.input.wrong_example)
        /\ Get(job.input, "code_example", "") /= ""
               => EmbedsNormalized(es[i], job.input.code_example)

\* the text of the file in the stream es went through normalize_code()
FileTextNormalized(es) ==
    \A i \in 1..Len(es) : EmbedsNormalized(es[i], ContentOf(job.input))

\* C19: every code fragment embedded in an answer (recipe code, gotcha
\* snippet, error-fix examples, tutorial and standard-library source text,
\* test-file text, Gambit example text) went through normalize_code() first.
C19_EveryFragmentNormalized ==
    ran =>
        /\ job.adapter = "convert_cookbooks" =>
               RecipeCodeNormalized(result.chatml) /\ RecipeCodeNormalized(result.alpaca)
        /\ job.adapter = "convert_error_fixes" =>
               FixExamplesNormalized(result.chatml) /\ FixExamplesNormalized(result.alpaca)
        /\ job.adapter \in FileAdapters =>
               FileTextNormalized(result.chatml) /\ FileTextNormalized(result.alpaca)

\* the adapters of source code the claim names
SourceCodeAdapters == {"convert_source_file", "convert_std_source_files"}

\* s ends with suffix
EndsWith(s, suffix) ==
    Len(s) >= Len(suffix) /\ SubSeq(s, Len(s) - Len(suffix) + 1, Len(s)) = suffix

\* what is embedded of a file by the claim: the first StdKeptLines lines and
\* the truncation marker when the file is above StdTruncateAbove characters
\* and has more lines than that, the whole text otherwise
ExpectedEmbedded(file) ==
    IF Len(ContentOf(file)) > StdTruncateAbove /\ Len(file.lines) > StdKeptLines
    THEN Join(Take(file.lines, StdKeptLines), "\n") \o "\n;; ... (truncated)"
    ELSE ContentOf(file)

\* the answers of the stream es end with the code block of what is embedded
EmbedsExpected(es) ==
    \A i \in 1..Len(es) :
        EndsWith(AnswerOf(es[i]), SchemeBlock(Strip(ExpectedEmbedded(job.input))))

\* C23: a source file given to convert_source_file() or
\* convert_std_source_files() that is above the size limit is embedded cut to
\* its first 500 lines followed by the truncation marker, and the marker is
\* there only when lines were removed.
C23_LargeSourcesTruncated ==
    (ran /\ job.adapter \in SourceCodeAdapters) =>
        EmbedsExpected(result.chatml) /\ EmbedsExpected(result.alpaca)

\* the rank of a heading line: the number of # it starts with when white
\* space follows them, 0 for a line that is no heading
HeadingRank(line) ==
    LET h == RunEnd(line, 1, {"#"})
    IN  IF h > 1 /\ CharAt(line, h) \in Whitespace THEN h - 1 ELSE 0

\* the line is a function heading: ## or ### and a name
IsFunctionHeading(line) == ApiHeadingAt(line \o "\n", 1).ok

\* the trimmed text of the lines after line i up to the next heading whose
\* rank is in ranks, or up to the end of the document
BodyUpTo(lines, i, ranks) ==
    LET J == {j \in (i + 1)..Len(lines) : HeadingRank(lines[j]) \in ranks}
        stop == IF J = {} THEN Len(lines) + 1 ELSE CHOOSE j \in J : \A k \in J : j <= k
    IN  Strip(Join(SubSeq(lines, i + 1, stop - 1), "\n"))

\* the bodies of at least MinApiDoc characters of the function headings of the
\* document, in order, when the body of a heading of rank r ends at the next
\* heading of rank 1..r
BodiesToSameOrHigherRank(lines) ==
    LET F[i \in 0..Len(lines)] ==
            IF i = 0 THEN <<>>
            ELSE IF IsFunctionHeading(lines[i])
                    /\ Len(BodyUpTo(lines, i, 1..HeadingRank(lines[i]))) >= MinApiDoc
                 THEN Append(F[i - 1], BodyUpTo(lines, i, 1..HeadingRank(lines[i])))
                 ELSE F[i - 1]
    IN  F[Len(lines)]

\* the answers of a stream, in order
AnswersOf(es) == [i \in 1..Len(es) |-> AnswerOf(es[i])]

\* the call was extract_api_entries() on a document it could read
ApiExtracted ==
    ran /\ job.adapter = "extract_api_entries" /\ job.input.read = "ok"

\* C24: the body extract_api_entries() attaches to a function heading of rank
\* r runs up to the next heading of rank r or higher (a top-level # heading
\* included) or the end of the document, a lower-rank heading does not end
\* it, and a body under 50 characters is skipped without effect on the other
\* headings.
C24_ApiBodyToSameOrHigherRank ==
    ApiExtracted =>
        /\ AnswersOf(result.chatml) = BodiesToSameOrHigherRank(job.input.lines)
        /\ AnswersOf(result.alpaca) = BodiesToSameOrHigherRank(job.input.lines)

\* the call was convert_tutorial() on a document it could read
TutorialConverted ==
    ran /\ job.adapter = "convert_tutorial" /\ job.input.read = "ok"

\* how many sections of the document pass the section filter: a heading, a
\* body of at least MinSectionBody characters, no structural heading
SectionsPassing(lines) ==
    LET sections == split_markdown_sections(lines)
    IN  Cardinality({i \in 1..Len(sections) :
                        /\ sections[i].heading /= ""
                        /\ Len(sections[i].body) >= MinSectionBody
                        /\ Lower(sections[i].heading) \notin StructuralHeadings})

\* how many entries of es have the entire document as their answer
WholeDocumentEntries(es) ==
    Cardinality({i \in 1..Len(es) : AnswerOf(es[i]) = Strip(ContentOf(job.input))})

\* what C25 says of the stream es
TutorialPolicy(es) ==
    IF Len(ContentOf(job.input)) >= TutorialFullLimit
    THEN /\ WholeDocumentEntries(es) = 0
         /\ Len(es) = SectionsPassing(job.input.lines)
    ELSE FirstLineIsHeading =>
             /\ WholeDocumentEntries(es) = 1
             /\ Len(es) = 1 + SectionsPassing(job.input.lines)

\* C25: for a tutorial document under 12000 characters whose first line is a
\* heading, convert_tutorial() emits exactly one entry whose answer is the
\* entire document, plus one entry per section that passes the section
\* filter; from 12000 characters on it emits section entries only.
C25_OneWholeTutorialEntry ==
    TutorialConverted => TutorialPolicy(result.chatml) /\ TutorialPolicy(result.alpaca)

(***************************************************************************)
(* Claims about normalize_code()                                           *)
(***************************************************************************)

RECURSIVE Unescape(_)
\* the reference unescaper: reads s from left to right and turns each escaped
\* newline, escaped quote and escaped backslash into the character it stands
\* for
Unescape(s) ==
    IF s = "" THEN ""
    ELSE IF StartsWith(s, "\\n") THEN "\n" \o Unescape(Drop(s, 3))
    ELSE IF StartsWith(s, "\\\"") THEN "\"" \o Unescape(Drop(s, 3))
    ELSE IF StartsWith(s, "\\\\") THEN "\\" \o Unescape(Drop(s, 3))
    ELSE SubSeq(s, 1, 1) \o Unescape(Drop(s, 2))

\* the reference: unescape, collapse the runs of blank lines, trim
ReferenceNormalize(s) == Strip(CollapseBlankLines(Unescape(s)))

\* normalize_code() has returned
Normalized == ran /\ job.adapter = "normalize_code"

\* C18: on every text, normalize_code() returns what the left-to-right
\* reference unescaper followed by the collapse of blank-line runs and the
\* trim returns; an escaped backslash followed by n gives a backslash and n.
C18_AgreesWithReferenceUnescaper ==
    Normalized => result = ReferenceNormalize(job.input)

====
